---- MODULE Spec2Model ----
(***************************************************************************)
(* A model of the tcm-rs replay codec (src/src/replay.rs, meta.rs,         *)
(* input.rs): the 16-byte envelope, the two 64-byte metadata encodings,    *)
(* the count-prefixed V1 input stream, the V2 input-stream state machines  *)
(* (encoder and decoder, one action per loop iteration), the version       *)
(* auto-detection and the version converter.                               *)
(*                                                                         *)
(* Numbers wider than 31 bits (Frame = u64, u32 values, f32 bit patterns)  *)
(* are kept as little-endian sequences of 16-bit limbs, so that the 2^32   *)
(* and 2^64 boundaries of the code are the real ones.                      *)
(***************************************************************************)
EXTENDS Integers, Sequences, FiniteSets, TLC

(***************************************************************************)
(* Bit operations on machine bytes (u8).                                   *)
(***************************************************************************)
RECURSIVE BitAndN(_, _, _)
BitAndN(a, b, n) ==
    IF n = 0 THEN 0
    ELSE (IF a % 2 = 1 /\ b % 2 = 1 THEN 1 ELSE 0)
         + 2 * BitAndN(a \div 2, b \div 2, n - 1)

RECURSIVE BitOrN(_, _, _)
BitOrN(a, b, n) ==
    IF n = 0 THEN 0
    ELSE (IF a % 2 = 1 \/ b % 2 = 1 THEN 1 ELSE 0)
         + 2 * BitOrN(a \div 2, b \div 2, n - 1)

\* the two operations tabulated once over all pairs of bytes
AndTable == [a \in 0..255 |-> [b \in 0..255 |-> BitAndN(a, b, 8)]]
OrTable == [a \in 0..255 |-> [b \in 0..255 |-> BitOrN(a, b, 8)]]

BitAnd(a, b) == AndTable[a][b]
BitOr(a, b) == OrTable[a][b]
\* the same on 16-bit halves of a u32
BitAnd16(a, b) == AndTable[a % 256][b % 256] + 256 * AndTable[a \div 256][b \div 256]
BitOr16(a, b) == OrTable[a % 256][b % 256] + 256 * OrTable[a \div 256][b \div 256]
\* u8 << k and u8 >> k (k < 8): bits shifted out of the byte are lost
Shl8(a, k) == (a * 2^k) % 256
Shr8(a, k) == a \div 2^k
BoolU8(b) == IF b THEN 1 ELSE 0

(***************************************************************************)
(* Wide unsigned integers: little-endian sequences of 16-bit limbs.        *)
(* A u64 (Frame) has 4 limbs, a u32 (and an f32 bit pattern) has 2.        *)
(***************************************************************************)
Limb == 2^16

U64Zero == <<0, 0, 0, 0>>
U32Zero == <<0, 0>>

\* the u64 of a small literal n < 2^31
U64(n) == <<n % Limb, n \div Limb, 0, 0>>
\* the u32 / f32 bit pattern with high half hi and low half lo
U32(hi, lo) == <<lo, hi>>

\* a <= b on u64
U64Le(a, b) ==
    IF a[4] # b[4] THEN a[4] < b[4]
    ELSE IF a[3] # b[3] THEN a[3] < b[3]
    ELSE IF a[2] # b[2] THEN a[2] < b[2]
    ELSE a[1] <= b[1]

\* an addition that would forget its first operand
U64Add_second(a, b) == b

\* a + b on u64, wrapping at 2^64
U64Add(a, b) ==
    LET s1 == a[1] + b[1]
        s2 == a[2] + b[2] + (s1 \div Limb)
        s3 == a[3] + b[3] + (s2 \div Limb)
        s4 == a[4] + b[4] + (s3 \div Limb)
    IN  <<s1 % Limb, s2 % Limb, s3 % Limb, s4 % Limb>>

\* a - b on u64, for b <= a
U64Sub(a, b) ==
    LET d1 == a[1] - b[1]
        w1 == IF d1 < 0 THEN 1 ELSE 0
        d2 == a[2] - b[2] - w1
        w2 == IF d2 < 0 THEN 1 ELSE 0
        d3 == a[3] - b[3] - w2
        w3 == IF d3 < 0 THEN 1 ELSE 0
        d4 == a[4] - b[4] - w3
    IN  <<(d1 + Limb) % Limb, (d2 + Limb) % Limb,
          (d3 + Limb) % Limb, (d4 + Limb) % Limb>>

\* u64::saturating_sub
SaturatingSub(a, b) == IF U64Le(b, a) THEN U64Sub(a, b) ELSE U64Zero

\* `x as u32` of a u64 and `x as Frame` of a u32
\* a cast that would keep 16 bits only
AsU16(a) == <<a[1], 0>>
\* `as u32`
\* a cast that would saturate, as u32::try_from(..).unwrap_or(u32::MAX)
AsU32_saturating(a) ==
    IF a[3] = 0 /\ a[4] = 0 THEN <<a[1], a[2]>> ELSE <<65535, 65535>>

AsU32(a) == <<a[1], a[2]>>
AsFrame(v) == <<v[1], v[2], 0, 0>>

\* to_le_bytes of a limb sequence (2 limbs: 4 bytes, 4 limbs: 8 bytes)
RECURSIVE ToLeBytes(_)
ToLeBytes(w) ==
    IF w = <<>> THEN <<>>
    ELSE <<Head(w) % 256, Head(w) \div 256>> \o ToLeBytes(Tail(w))

\* from_le_bytes of an even number of bytes, as a limb sequence
RECURSIVE FromLeBytes(_)
FromLeBytes(bs) ==
    IF Len(bs) < 2 THEN <<>>
    ELSE <<bs[1] + 256 * bs[2]>> \o FromLeBytes(SubSeq(bs, 3, Len(bs)))

\* `value as u8`, `value as u16`, `value as u32` of a Frame, then to_le_bytes
FrameLowBytes(a, n) == SubSeq(ToLeBytes(a), 1, n)

\* a little-endian byte string of 1, 2 or 4 bytes read as a Frame
RECURSIVE PadBytes(_, _)
PadBytes(bs, n) == IF Len(bs) >= n THEN bs ELSE PadBytes(Append(bs, 0), n)
FrameOfBytes(bs) == FromLeBytes(PadBytes(bs, 8))

(***************************************************************************)
(* Option<T>: None is the empty sequence, Some(x) the one-element one.     *)
(***************************************************************************)
None == <<>>
Some(x) == <<x>>
IsSome(o) == o # <<>>
Unwrap(o) == o[1]

(***************************************************************************)
(* Varint helpers (replay.rs 102-134).                                     *)
(***************************************************************************)
\* a shift that would carry no bit from the high half to the low one
U32Shr7_halves(v) == <<v[1] \div 128, v[2] \div 128>>

\* value >>= 7 on a u32
U32Shr7(v) == <<(v[1] \div 128) + (v[2] % 128) * 512, v[2] \div 128>>

\* ((byte & 0x7F) as u32) << s for s < 32: bits shifted past bit 31 are lost
U32Shl(x, s) ==
    IF s < 16 THEN <<(x * 2^s) % Limb, ((x * 2^s) \div Limb) % Limb>>
    ELSE <<0, (x * 2^(s - 16)) % Limb>>

U32Or(a, b) == <<BitOr16(a[1], b[1]), BitOr16(a[2], b[2])>>

RECURSIVE write_var_u32(_)
write_var_u32(value) ==
    LET byte == BitAnd16(value[1], 127)
        rest == U32Shr7(value)
    IN  IF rest = U32Zero THEN <<byte>>
        ELSE <<BitOr(byte, 128)>> \o write_var_u32(rest)

\* The loop of read_var_u32 from position pos with the accumulated value and
\* shift. A shift of 32 or more is an arithmetic overflow of `<<`: a panic in
\* a build with overflow checks, the shift taken modulo 32 in one without.
RECURSIVE read_var_loop(_, _, _, _, _)
read_var_loop(buf, pos, value, shift, checks) ==
    IF pos >= Len(buf) THEN [tag |-> "Eof", value |-> value, pos |-> pos]
    ELSE IF shift >= 32 /\ checks
    THEN [tag |-> "Panic", value |-> value, pos |-> pos + 1]
    ELSE LET byte == buf[pos + 1]
             v == U32Or(value, U32Shl(BitAnd(byte, 127), shift % 32))
         IN  IF BitAnd(byte, 128) = 0
             THEN [tag |-> "Ok", value |-> v, pos |-> pos + 1]
             ELSE read_var_loop(buf, pos + 1, v, shift + 7, checks)

read_var_u32(buf, pos, checks) == read_var_loop(buf, pos, U32Zero, 0, checks)

(***************************************************************************)
(* Domain model (input.rs).                                                *)
(***************************************************************************)
Jump == 1
Left == 2
Right == 3
RestartKind == 0
RestartFull == 1
Death == 2

Vanilla(button, push, player2) ==
    [kind |-> "Vanilla", button |-> button, push |-> push, player2 |-> player2]
Restart(restart_type, new_seed) ==
    [kind |-> "Restart", restart_type |-> restart_type, new_seed |-> new_seed]
Tps(tps) == [kind |-> "Tps", tps |-> tps]
Bugpoint == [kind |-> "Bugpoint"]

InputCommand(frame, input) == [frame |-> frame, input |-> input]

\* a baseline that a Restart would not reset
adjusted_frame_kept(cmd) == cmd.frame

adjusted_frame(cmd) == IF cmd.input.kind = "Restart" THEN U64Zero ELSE cmd.frame

\* a conversion that would not know the button Right
PlayerButton_try_from_two(value) == IF value \in {1, 2} THEN Some(value) ELSE None

\* TryFrom<u8> for PlayerButton and for RestartType
PlayerButton_try_from(value) == IF value \in {1, 2, 3} THEN Some(value) ELSE None
RestartType_try_from(value) == IF value \in {0, 1, 2} THEN Some(value) ELSE None

(***************************************************************************)
(* Metadata (meta.rs). An f32 is its bit pattern, a u32.                   *)
(***************************************************************************)
MetaSize == 64
OverrideSeed == 1
TpsInsteadOfDt == 2

MetaV2BitFlags_is_set(flags, flag) == BitAnd(flags, flag) # 0
\* a set that would overwrite the other flags
MetaV2BitFlags_set_only(flags, flag, value) == IF value THEN flag ELSE 0

MetaV2BitFlags_set(flags, flag, value) ==
    IF value THEN BitOr(flags, flag) ELSE BitAnd(flags, 255 - flag)

MetaV1_new(tps, append_counter) ==
    [version |-> 1, tps |-> tps, append_counter |-> append_counter]

MetaV2_new(tps, append_counter, rng_seed) ==
    LET f1 == MetaV2BitFlags_set(0, TpsInsteadOfDt, TRUE)
        f2 == MetaV2BitFlags_set(f1, OverrideSeed, IsSome(rng_seed))
    IN  [version |-> 2, rng_seed |-> rng_seed, tps_or_dt |-> tps,
         append_counter |-> append_counter, flags |-> f2]

\* 1.0_f32 / x on the bit patterns the model uses (exact quotients)
F32Recip(x) ==
    CASE x = U32(16256, 0) -> U32(16256, 0)        \* 1.0 -> 1.0
      [] x = U32(16384, 0) -> U32(16128, 0)        \* 2.0 -> 0.5
      [] x = U32(16128, 0) -> U32(16384, 0)        \* 0.5 -> 2.0
      [] x = U32(16512, 0) -> U32(16000, 0)        \* 4.0 -> 0.25
      [] x = U32(16000, 0) -> U32(16512, 0)        \* 0.25 -> 4.0
      [] x = U32(17264, 0) -> U32(15240, 34953)    \* 240.0 -> 1/240

Zeros(n) == [i \in 1..n |-> 0]

\* bytes with the byte string `part` copied in at 0-based offset `at`
CopyIn(bytes, at, part) ==
    [i \in 1..Len(bytes) |->
        IF i > at /\ i <= at + Len(part) THEN part[i - at] ELSE bytes[i]]

\* a to_bytes that would leave the append counter out
MetaV1_to_bytes_no_counter(m) ==
    CopyIn(CopyIn(Zeros(MetaSize), 0, <<1>>), 4, ToLeBytes(m.tps))

MetaV1_to_bytes(m) ==
    CopyIn(CopyIn(Zeros(MetaSize), 0, <<1, m.append_counter>>),
           4, ToLeBytes(m.tps))

MetaV2_to_bytes(m) ==
    LET b1 == CopyIn(Zeros(MetaSize), 0, <<2, m.append_counter, m.flags>>)
        b2 == CopyIn(b1, 4, ToLeBytes(m.tps_or_dt))
    IN  IF IsSome(m.rng_seed) THEN CopyIn(b2, 8, ToLeBytes(Unwrap(m.rng_seed)))
        ELSE b2

\* a from_bytes that would leave the version byte to its caller
MetaV1_from_bytes_unasserted(bytes) ==
    IF Len(bytes) < MetaSize THEN None
    ELSE Some([version |-> 1, tps |-> FromLeBytes(SubSeq(bytes, 5, 8)),
               append_counter |-> bytes[2]])

\* from_bytes: None stands for the failed assertion (a panic)
MetaV1_from_bytes(bytes) ==
    IF Len(bytes) < MetaSize \/ bytes[1] # 1 THEN None
    ELSE Some([version |-> 1, tps |-> FromLeBytes(SubSeq(bytes, 5, 8)),
               append_counter |-> bytes[2]])

\* a from_bytes that would take the seed for present when the OverrideSeed
\* flag says so
MetaV2_from_bytes_by_flag(bytes) ==
    IF Len(bytes) < MetaSize \/ bytes[1] # 2 THEN None
    ELSE Some([version |-> 2,
               rng_seed |-> IF MetaV2BitFlags_is_set(bytes[3], OverrideSeed)
                            THEN Some(FromLeBytes(SubSeq(bytes, 9, 16)))
                            ELSE None,
               tps_or_dt |-> FromLeBytes(SubSeq(bytes, 5, 8)),
               append_counter |-> bytes[2], flags |-> bytes[3]])

MetaV2_from_bytes(bytes) ==
    IF Len(bytes) < MetaSize \/ bytes[1] # 2 THEN None
    ELSE LET seed == FromLeBytes(SubSeq(bytes, 9, 16))
         IN  Some([version |-> 2,
                   rng_seed |-> IF seed # U64Zero THEN Some(seed) ELSE None,
                   tps_or_dt |-> FromLeBytes(SubSeq(bytes, 5, 8)),
                   append_counter |-> bytes[2], flags |-> bytes[3]])

\* the Meta trait, dispatched on the concrete type (Box<dyn Meta>)
to_bytes(m) == IF m.version = 1 THEN MetaV1_to_bytes(m) ELSE MetaV2_to_bytes(m)
version_instance(m) == m.version
tps(m) ==
    IF m.version = 1 THEN m.tps
    ELSE IF MetaV2BitFlags_is_set(m.flags, TpsInsteadOfDt) THEN m.tps_or_dt
    ELSE F32Recip(m.tps_or_dt)
\* an accessor that would never report a stored dt
uses_dt_never(m) == FALSE

uses_dt(m) ==
    IF m.version = 1 THEN FALSE
    ELSE ~MetaV2BitFlags_is_set(m.flags, TpsInsteadOfDt)
rng_seed(m) == IF m.version = 1 THEN None ELSE m.rng_seed
is_rng_seed_set(m) ==
    IF m.version = 1 THEN FALSE ELSE MetaV2BitFlags_is_set(m.flags, OverrideSeed)

(***************************************************************************)
(* V1 control byte (replay.rs 48-100).                                     *)
(***************************************************************************)
V1_INPUT_MASK == 7
V1_PUSH_OFFSET == 7
V1_PLAYER2_OFFSET == 6
V1_EOM == 204

\* an encoder that would accept every input
v1_serialize_any(input) == Some(0)

v1_serialize_input(input) ==
    CASE input.kind = "Vanilla" ->
            Some(BitOr(BitOr(BitAnd(input.button - 1, V1_INPUT_MASK),
                             Shl8(BoolU8(input.push), V1_PUSH_OFFSET)),
                       Shl8(BoolU8(input.player2), V1_PLAYER2_OFFSET)))
      [] input.kind = "Restart" ->
            (CASE input.restart_type = RestartKind -> Some(3)
               [] input.restart_type = RestartFull -> Some(4)
               [] input.restart_type = Death -> Some(5))
      [] OTHER -> None

\* a decoder that would give every full restart a seed
v1_deserialize_seeded(data) ==
    LET input == BitAnd(data, V1_INPUT_MASK)
    IN  CASE input < 3 ->
                Some(Vanilla(input + 1, BitAnd(data, Shl8(1, V1_PUSH_OFFSET)) # 0,
                             BitAnd(data, Shl8(1, V1_PLAYER2_OFFSET)) # 0))
          [] input = 3 -> Some(Restart(RestartKind, None))
          [] input = 4 -> Some(Restart(RestartFull, Some(U64Zero)))
          [] input = 5 -> Some(Restart(Death, None))
          [] OTHER -> None

v1_deserialize_input(data) ==
    LET input == BitAnd(data, V1_INPUT_MASK)
    IN  IF input < 3
        THEN LET button == PlayerButton_try_from(input + 1)
             IN  IF IsSome(button)
                 THEN Some(Vanilla(Unwrap(button),
                                   BitAnd(data, Shl8(1, V1_PUSH_OFFSET)) # 0,
                                   BitAnd(data, Shl8(1, V1_PLAYER2_OFFSET)) # 0))
                 ELSE None
        ELSE CASE input = 3 -> Some(Restart(RestartKind, None))
               [] input = 4 -> Some(Restart(RestartFull, None))
               [] input = 5 -> Some(Restart(Death, None))
               [] OTHER -> None

(***************************************************************************)
(* V1 input stream (replay.rs 409-426, 550-568).                           *)
(***************************************************************************)
\* the try_for_each of serialize_inputs_v1 from index i on: the bytes written
\* and whether it ran to the end
RECURSIVE v1_write_records(_, _)
v1_write_records(inputs, i) ==
    IF i > Len(inputs) THEN [ok |-> TRUE, bytes |-> <<>>]
    ELSE LET input_data == v1_serialize_input(inputs[i].input)
         IN  IF ~IsSome(input_data) THEN [ok |-> FALSE, bytes |-> <<>>]
             ELSE LET rest == v1_write_records(inputs, i + 1)
                  IN  [ok |-> rest.ok,
                       bytes |-> write_var_u32(AsU32(inputs[i].frame))
                                 \o input_data \o rest.bytes]

\* an encoder that would leave the terminator out
serialize_inputs_v1_no_eom(inputs) ==
    LET count == write_var_u32(U32(0, Len(inputs)))
        recs == v1_write_records(inputs, 1)
    IN  [err |-> IF recs.ok THEN "" ELSE "Unsupported input type in v1 replay",
         bytes |-> count \o recs.bytes]

serialize_inputs_v1(inputs) ==
    LET count == write_var_u32(U32(0, Len(inputs)))
        recs == v1_write_records(inputs, 1)
    IN  IF recs.ok
        THEN [err |-> "", bytes |-> count \o recs.bytes \o <<V1_EOM>>]
        ELSE [err |-> "Unsupported input type in v1 replay",
              bytes |-> count \o recs.bytes]

\* the `for _ in 0..input_count` loop with n records left to read
RECURSIVE v1_read_records(_, _, _, _, _)
v1_read_records(buf, pos, n, inputs, checks) ==
    IF n = U32Zero THEN [err |-> "", inputs |-> inputs, pos |-> pos]
    ELSE LET f == read_var_u32(buf, pos, checks)
         IN  IF f.tag = "Eof"
             THEN [err |-> "UnexpectedEof", inputs |-> <<>>, pos |-> f.pos]
             ELSE IF f.tag = "Panic"
             THEN [err |-> "panic: shift overflow", inputs |-> <<>>, pos |-> f.pos]
             ELSE IF f.pos >= Len(buf)
             THEN [err |-> "UnexpectedEof", inputs |-> <<>>, pos |-> f.pos]
             ELSE LET input == v1_deserialize_input(buf[f.pos + 1])
                  IN  IF ~IsSome(input)
                      THEN [err |-> "Invalid input byte in v1 replay",
                            inputs |-> <<>>, pos |-> f.pos + 1]
                      ELSE v1_read_records(buf, f.pos + 1,
                               AsU32(U64Sub(AsFrame(n), U64(1))),
                               Append(inputs,
                                      InputCommand(AsFrame(f.value), Unwrap(input))),
                               checks)

\* a decoder that would read the terminator and insist on it
deserialize_inputs_v1_terminated(buf, pos, checks) ==
    LET c == read_var_u32(buf, pos, checks)
    IN  IF c.tag = "Eof" THEN [err |-> "UnexpectedEof", inputs |-> <<>>, pos |-> c.pos]
        ELSE IF c.tag = "Panic"
        THEN [err |-> "panic: shift overflow", inputs |-> <<>>, pos |-> c.pos]
        ELSE LET r == v1_read_records(buf, c.pos, c.value, <<>>, checks)
             IN  IF r.err # "" THEN r
                 ELSE IF r.pos < Len(buf) /\ buf[r.pos + 1] = V1_EOM
                 THEN [r EXCEPT !.pos = r.pos + 1]
                 ELSE [err |-> "UnexpectedEof", inputs |-> <<>>, pos |-> r.pos]

deserialize_inputs_v1(buf, pos, checks) ==
    LET c == read_var_u32(buf, pos, checks)
    IN  IF c.tag = "Eof" THEN [err |-> "UnexpectedEof", inputs |-> <<>>, pos |-> c.pos]
        ELSE IF c.tag = "Panic"
        THEN [err |-> "panic: shift overflow", inputs |-> <<>>, pos |-> c.pos]
        ELSE v1_read_records(buf, c.pos, c.value, <<>>, checks)

(***************************************************************************)
(* V2 action byte and delta blobs (replay.rs 136-405).                     *)
(***************************************************************************)
PUSH_OFFSET == 2
PLAYER2_OFFSET == 3
CUSTOM_OFFSET == 2
EXTRA_OFFSET == 4
DELTA_OFFSET == 5
INPUT_MASK == 3
PUSH_MASK == Shl8(1, PUSH_OFFSET)
PLAYER2_MASK == Shl8(1, PLAYER2_OFFSET)
CUSTOM_MASK == Shl8(3, CUSTOM_OFFSET)
EXTRA_MASK == Shl8(1, EXTRA_OFFSET)
DELTA_DATA_MASK == Shl8(7, DELTA_OFFSET)

craft_input(button, push, player2, swift) ==
    BitOr(BitOr(BitOr(BitAnd(button, INPUT_MASK),
                      Shl8(BoolU8(push), PUSH_OFFSET)),
                Shl8(BoolU8(player2), PLAYER2_OFFSET)),
          Shl8(BoolU8(swift), EXTRA_OFFSET))

\* enum ByteBlob as its discriminant: Zero = 0, One = 1, Two = 2, Four = 3
BlobZero == 0
BlobOne == 1
BlobTwo == 2
BlobFour == 3
ByteBlob_iter == <<BlobZero, BlobOne, BlobTwo, BlobFour>>

\* a conversion that would read the selector 3 as two bytes
ByteBlob_try_from_capped(value) == IF value \in {0, 1, 2} THEN Some(value) ELSE Some(2)

ByteBlob_try_from(value) == IF value \in {0, 1, 2, 3} THEN Some(value) ELSE None

\* a four-byte blob that would take every u64
ByteBlob_max_wide(blob) ==
    CASE blob = BlobZero -> U64Zero
      [] blob = BlobOne -> <<255, 0, 0, 0>>
      [] blob = BlobTwo -> <<65535, 0, 0, 0>>
      [] blob = BlobFour -> <<65535, 65535, 65535, 65535>>

ByteBlob_max(blob) ==
    CASE blob = BlobZero -> U64Zero
      [] blob = BlobOne -> <<255, 0, 0, 0>>
      [] blob = BlobTwo -> <<65535, 0, 0, 0>>
      [] blob = BlobFour -> <<65535, 65535, 0, 0>>

\* the number of bytes a blob writes and reads
ByteBlob_width(blob) ==
    CASE blob = BlobZero -> 0
      [] blob = BlobOne -> 1
      [] blob = BlobTwo -> 2
      [] blob = BlobFour -> 4

\* ByteBlob::serialize: None is the failed assert!(value <= self.max())
ByteBlob_serialize(blob, value) ==
    IF ~U64Le(value, ByteBlob_max(blob)) THEN None
    ELSE Some(FrameLowBytes(value, ByteBlob_width(blob)))

\* a loop that would try the difference from the last delta before the
\* delta itself
RECURSIVE SerializerDeltaInfo_loop_magic_first(_, _, _)
SerializerDeltaInfo_loop_magic_first(delta, last_delta, k) ==
    IF k > Len(ByteBlob_iter) THEN None
    ELSE LET byte == ByteBlob_iter[k]
         IN  IF /\ last_delta # U64Zero
                /\ U64Le(last_delta, delta)
                /\ U64Le(U64Sub(delta, last_delta), ByteBlob_max(byte))
             THEN Some([blob |-> byte, magic |-> Some(last_delta), delta |-> delta])
             ELSE IF U64Le(delta, ByteBlob_max(byte))
             THEN Some([blob |-> byte, magic |-> None, delta |-> delta])
             ELSE SerializerDeltaInfo_loop_magic_first(delta, last_delta, k + 1)

\* SerializerDeltaInfo::new: the loop over ByteBlob::iter() from index k;
\* None is panic!("Delta too big")
RECURSIVE SerializerDeltaInfo_loop(_, _, _)
SerializerDeltaInfo_loop(delta, last_delta, k) ==
    IF k > Len(ByteBlob_iter) THEN None
    ELSE LET byte == ByteBlob_iter[k]
         IN  IF U64Le(delta, ByteBlob_max(byte))
             THEN Some([blob |-> byte, magic |-> None, delta |-> delta])
             ELSE IF last_delta = U64Zero \/ ~U64Le(last_delta, delta)
             THEN SerializerDeltaInfo_loop(delta, last_delta, k + 1)
             ELSE IF U64Le(U64Sub(delta, last_delta), ByteBlob_max(byte))
             THEN Some([blob |-> byte, magic |-> Some(last_delta), delta |-> delta])
             ELSE SerializerDeltaInfo_loop(delta, last_delta, k + 1)

\* a constructor that would never write a delta relative to the last one
SerializerDeltaInfo_new_direct(delta, last_delta) ==
    SerializerDeltaInfo_loop(delta, U64Zero, 1)

SerializerDeltaInfo_new(delta, last_delta) ==
    SerializerDeltaInfo_loop(delta, last_delta, 1)

SerializerDeltaInfo_default == [blob |-> BlobZero, magic |-> None, delta |-> U64Zero]

SerializerDeltaInfo_empty(d) == d.blob = BlobZero
SerializerDeltaInfo_magic(d) == IsSome(d.magic)
\* a craft that would put the width in front of the magic bit
SerializerDeltaInfo_craft_swapped(d) ==
    BitOr(d.blob, Shl8(BoolU8(SerializerDeltaInfo_magic(d)), 2))

SerializerDeltaInfo_craft(d) ==
    BitOr(BoolU8(SerializerDeltaInfo_magic(d)), Shl8(d.blob, 1))

\* SerializerDeltaInfo::serialize: the bytes, or the error / failed assertion
SerializerDeltaInfo_serialize(d) ==
    IF SerializerDeltaInfo_empty(d)
    THEN [err |-> "Cannot serialize empty delta", bytes |-> <<>>]
    ELSE LET value_to_serialize ==
                 IF IsSome(d.magic) THEN U64Sub(d.delta, Unwrap(d.magic))
                 ELSE d.delta
             w == ByteBlob_serialize(d.blob, value_to_serialize)
         IN  IF IsSome(w) THEN [err |-> "", bytes |-> Unwrap(w)]
             ELSE [err |-> "panic: assertion failed: value <= self.max()",
                   bytes |-> <<>>]

\* v2::serialize_input: None is the failed assert!(!swift)
v2_serialize_input(input, swift) ==
    IF input.kind = "Vanilla"
    THEN Some(craft_input(input.button, input.push, input.player2, swift))
    ELSE IF swift THEN None
    ELSE LET t == CASE input.kind = "Restart" -> input.restart_type
                    [] input.kind = "Tps" -> 3
                    [] input.kind = "Bugpoint" -> 3
             extra == CASE input.kind = "Restart" -> IsSome(input.new_seed)
                        [] input.kind = "Tps" -> FALSE
                        [] input.kind = "Bugpoint" -> TRUE
         IN  Some(Shl8(BitOr(t, Shl8(BoolU8(extra), 2)), CUSTOM_OFFSET))

DeserializerDeltaInfo_default == [blob |-> BlobZero, last_delta |-> None]

\* DeserializerDeltaInfo::new; the unwrap of try_into cannot fail on 2 bits
DeserializerDeltaInfo_new(data, last_delta) ==
    LET bytes == BitAnd(Shr8(data, 1), 3)
        magic == BitAnd(data, 1) # 0
    IN  [blob |-> Unwrap(ByteBlob_try_from(bytes)),
         last_delta |-> IF magic THEN Some(last_delta) ELSE None]

DeserializerDeltaInfo_empty(d) == d.blob = BlobZero

\* a decoder that would ignore the base of a relative delta
unwrap_or_ignored(o, dflt) == dflt
unwrap_or(o, dflt) == IF IsSome(o) THEN Unwrap(o) ELSE dflt

\* a read that would store every delta it resolves, a zero one too
DeserializerDeltaInfo_read_storing(d, buf, pos, p_last_delta) ==
    IF d.blob = BlobZero
    THEN [err |-> "", result |-> unwrap_or(d.last_delta, U64Zero),
          pos |-> pos, p_last_delta |-> unwrap_or(d.last_delta, U64Zero)]
    ELSE LET w == ByteBlob_width(d.blob)
         IN  IF pos + w > Len(buf)
             THEN [err |-> "UnexpectedEof", result |-> U64Zero,
                   pos |-> Len(buf), p_last_delta |-> p_last_delta]
             ELSE LET value == FrameOfBytes(SubSeq(buf, pos + 1, pos + w))
                      result == U64Add(unwrap_or(d.last_delta, U64Zero), value)
                  IN  [err |-> "", result |-> result, pos |-> pos + w,
                       p_last_delta |-> result]

\* DeserializerDeltaInfo::read: the resolved delta, the reader's new position
\* and the new value of *p_last_delta
DeserializerDeltaInfo_read(d, buf, pos, p_last_delta) ==
    IF DeserializerDeltaInfo_empty(d)
    THEN [err |-> "", result |-> unwrap_or(d.last_delta, U64Zero),
          pos |-> pos, p_last_delta |-> p_last_delta]
    ELSE LET w == ByteBlob_width(d.blob)
         IN  IF pos + w > Len(buf)
             THEN [err |-> "UnexpectedEof", result |-> U64Zero,
                   pos |-> Len(buf), p_last_delta |-> p_last_delta]
             ELSE LET value == FrameOfBytes(SubSeq(buf, pos + 1, pos + w))
                      result == U64Add(unwrap_or(d.last_delta, U64Zero), value)
                  IN  [err |-> "", result |-> result, pos |-> pos + w,
                       p_last_delta |->
                           IF result # U64Zero THEN result ELSE p_last_delta]

(***************************************************************************)
(* Envelope (replay.rs 704-707).                                           *)
(***************************************************************************)
HEADER_SIZE == 16
TCBOT_HEADER ==
    <<159, 136, 137, 132, 159, 59, 29, 216, 204, 161, 134, 138, 136, 153, 132, 0>>

(***************************************************************************)
(* serialize_inputs_v2 (replay.rs 428-532), one loop iteration at a time.  *)
(* Encoder locals: idx is the number of inputs the iterator has yielded.   *)
(***************************************************************************)
SerializerBlob_Action == [tag |-> "Action"]
SerializerBlob_FrameDelta == [tag |-> "FrameDelta"]
SerializerBlob_Tps(v) == [tag |-> "Tps", v |-> v]
SerializerBlob_Seed(v) == [tag |-> "Seed", v |-> v]

EncoderInit ==
    [idx |-> 0, next_blob |-> SerializerBlob_Action, last_delta |-> U64Zero,
     next_delta |-> SerializerDeltaInfo_default]

\* iter.peek() after idx inputs were taken
Peek(inputs, idx) == IF idx < Len(inputs) THEN Some(inputs[idx + 1]) ELSE None

\* a closure that would not compare player2
IsSwift_any_player(input, next) ==
    /\ IsSome(next)
    /\ Unwrap(next).frame = input.frame
    /\ input.input.kind = "Vanilla"
    /\ Unwrap(next).input.kind = "Vanilla"
    /\ input.input.button = Unwrap(next).input.button
    /\ input.input.push # Unwrap(next).input.push

\* the closure of is_some_and at replay.rs 448-459
IsSwift(input, next) ==
    /\ IsSome(next)
    /\ Unwrap(next).frame = input.frame
    /\ input.input.kind = "Vanilla"
    /\ Unwrap(next).input.kind = "Vanilla"
    /\ input.input.button = Unwrap(next).input.button
    /\ input.input.push # Unwrap(next).input.push
    /\ input.input.player2 = Unwrap(next).input.player2

\* a transition that would enter FrameDelta whatever the delta is
AfterDelta_always(next_delta) == SerializerBlob_FrameDelta

\* the state the encoder goes to once the action byte (and blob) is out
AfterDelta(next_delta) ==
    IF SerializerDeltaInfo_empty(next_delta) THEN SerializerBlob_Action
    ELSE SerializerBlob_FrameDelta

AfterAction(input, next_delta) ==
    CASE input.kind = "Tps" -> SerializerBlob_Tps(input.tps)
      [] input.kind = "Restart" /\ IsSome(input.new_seed) ->
            SerializerBlob_Seed(Unwrap(input.new_seed))
      [] OTHER -> AfterDelta(next_delta)

\* the SerializerBlob::Action arm: the new locals and the byte written, or
\* the panic it ends in
EncodeAction(inputs, e) ==
    LET input == inputs[e.idx + 1]
        swift == IsSwift(input, Peek(inputs, e.idx + 1))
        idx2 == IF swift THEN e.idx + 2 ELSE e.idx + 1
        next == Peek(inputs, idx2)
        nd == IF IsSome(next)
              THEN SerializerDeltaInfo_new(
                       SaturatingSub(Unwrap(next).frame, adjusted_frame(input)),
                       e.last_delta)
              ELSE Some(SerializerDeltaInfo_default)
        data == v2_serialize_input(input.input, swift)
    IN  IF ~IsSome(nd)
        THEN [err |-> "panic: Delta too big", bytes |-> <<>>, e |-> e]
        ELSE IF ~IsSome(data)
        THEN [err |-> "panic: Non-vanilla inputs cannot be swift",
              bytes |-> <<>>, e |-> e]
        ELSE LET next_delta == Unwrap(nd)
             IN  [err |-> "",
                  bytes |-> <<BitOr(Unwrap(data),
                                    Shl8(SerializerDeltaInfo_craft(next_delta),
                                         DELTA_OFFSET))>>,
                  e |-> [idx |-> idx2,
                         next_blob |-> AfterAction(input.input, next_delta),
                         last_delta |-> IF next_delta.delta # U64Zero
                                        THEN next_delta.delta ELSE e.last_delta,
                         next_delta |-> next_delta]]

(***************************************************************************)
(* deserialize_inputs_v2 (replay.rs 570-701), one loop iteration at a      *)
(* time. Decoder locals as in the code.                                    *)
(***************************************************************************)
DecoderInit(start) ==
    [current_frame |-> start, last_delta |-> U64Zero, next_blob |-> "Action",
     next_delta |-> DeserializerDeltaInfo_default, awaiting_seed |-> None,
     inputs |-> <<>>]

\* the DeserializerBlob::Action arm on the byte read
DecodeAction(byte, d) ==
    LET delta_data == Shr8(BitAnd(byte, DELTA_DATA_MASK), DELTA_OFFSET)
        next_delta == DeserializerDeltaInfo_new(delta_data, d.last_delta)
        input_data == BitAnd(byte, INPUT_MASK)
        d1 == [d EXCEPT !.next_delta = next_delta]
    IN  IF input_data > 0
        THEN LET button == Unwrap(PlayerButton_try_from(input_data))
                 push == BitAnd(byte, PUSH_MASK) # 0
                 player2 == BitAnd(byte, PLAYER2_MASK) # 0
                 swift == BitAnd(byte, EXTRA_MASK) # 0
                 first == InputCommand(d.current_frame, Vanilla(button, push, player2))
                 twin == InputCommand(d.current_frame, Vanilla(button, ~push, player2))
             IN  [d1 EXCEPT !.inputs = IF swift THEN d.inputs \o <<first, twin>>
                                       ELSE Append(d.inputs, first),
                            !.next_blob = "FrameDelta"]
        ELSE LET custom_type == Shr8(BitAnd(byte, CUSTOM_MASK), CUSTOM_OFFSET)
                 extra == BitAnd(byte, EXTRA_MASK) # 0
             IN  IF custom_type = 3
                 THEN IF extra
                      THEN [d1 EXCEPT !.inputs = Append(d.inputs,
                                          InputCommand(d.current_frame, Bugpoint)),
                                      !.next_blob = "FrameDelta"]
                      ELSE [d1 EXCEPT !.next_blob = "Tps"]
                 ELSE LET restart_type == Unwrap(RestartType_try_from(custom_type))
                      IN  IF extra
                          THEN [d1 EXCEPT !.awaiting_seed =
                                              Some(<<restart_type, d.current_frame>>),
                                          !.next_blob = "Seed",
                                          !.current_frame = U64Zero]
                          ELSE [d1 EXCEPT !.inputs = Append(d.inputs,
                                              InputCommand(d.current_frame,
                                                  Restart(restart_type, None))),
                                          !.next_blob = "FrameDelta",
                                          !.current_frame = U64Zero]

(***************************************************************************)
(* ReplayDeserializer::deserialize up to the input stream (replay.rs       *)
(* 725-737) for the metadata type M ("V1" or "V2") on the reader at p.     *)
(***************************************************************************)
M_from_bytes(M, bytes) ==
    IF M = "V1" THEN MetaV1_from_bytes(bytes) ELSE MetaV2_from_bytes(bytes)

M_version(M) == CASE M = "V1" -> 1 [] M = "V2" -> 2 [] OTHER -> 0

\* a comparison that would skip the last byte of the header
header_ne_short(header) ==
    SubSeq(header, 1, HEADER_SIZE - 1) # SubSeq(TCBOT_HEADER, 1, HEADER_SIZE - 1)

\* `header != TCBOT_HEADER` (replay.rs 728)
header_ne(header) == header # TCBOT_HEADER

deserialize_envelope(buf, p, M) ==
    IF p + HEADER_SIZE > Len(buf)
    THEN [err |-> "UnexpectedEof", meta |-> None, pos |-> Len(buf)]
    ELSE IF header_ne(SubSeq(buf, p + 1, p + HEADER_SIZE))
    THEN [err |-> "Invalid header", meta |-> None, pos |-> p + HEADER_SIZE]
    ELSE IF p + HEADER_SIZE + MetaSize > Len(buf)
    THEN [err |-> "UnexpectedEof", meta |-> None, pos |-> Len(buf)]
    ELSE LET meta == M_from_bytes(M, SubSeq(buf, p + HEADER_SIZE + 1,
                                            p + HEADER_SIZE + MetaSize))
         IN  IF IsSome(meta)
             THEN [err |-> "", meta |-> meta, pos |-> p + HEADER_SIZE + MetaSize]
             ELSE [err |-> "panic: assertion failed: version == Self::version()",
                   meta |-> None, pos |-> p + HEADER_SIZE + MetaSize]

(***************************************************************************)
(* Inputs the model draws its replays from.                                *)
(***************************************************************************)
MaxLen == 3

T240 == U32(17264, 0)
T120 == U32(17136, 0)
Seed1 == <<54321, 0, 0, 0>>
Seed2 == <<32229, 1, 0, 0>>

KindPool ==
    { Vanilla(Jump, TRUE, FALSE), Vanilla(Jump, FALSE, FALSE),
      Vanilla(Jump, FALSE, TRUE),
      Restart(Death, None), Restart(RestartFull, Some(Seed1)),
      Tps(T120), Bugpoint }

\* one input of each kind, for the replays that are converted
DynKinds ==
    { Vanilla(Jump, TRUE, FALSE), Restart(Death, None),
      Restart(RestartFull, Some(Seed1)), Tps(T120), Bugpoint }

\* 2^32 + 200
FrameWide == <<200, 0, 1, 0>>

\* small frame values in the patterns a list of n inputs can take: all equal,
\* a step up after the first, a step up at the last, a step down
Shapes(n) ==
    { [i \in 1..n |-> U64(200)],
      [i \in 1..n |-> IF i = 1 THEN U64(200) ELSE U64(500)],
      [i \in 1..n |-> IF i = n THEN U64(500) ELSE U64(200)],
      [i \in 1..n |-> IF i = 1 THEN U64(500) ELSE U64(200)] }

\* the n inputs of kinds k at the frames s
MixSeq(n, k, s) == [i \in 1..n |-> InputCommand(s[i], k[i])]

\* frames whose differences need every delta width, none, and more than 32
\* bits
WidthFrames == {U64(0), U64(200), U64(500), U64(66000), FrameWide}

\* n Vanilla inputs at the frames f, the r-th one replaced by a Restart
WidthSeq(n, f, r) ==
    [i \in 1..n |->
        InputCommand(f[i],
            IF i = r THEN Restart(RestartKind, None)
            ELSE Vanilla(IF i % 2 = 1 THEN Left ELSE Right, TRUE, i % 2 = 0))]

\* the steps between the frames of evenly spaced inputs: one that fits a
\* byte, one that needs two bytes, one that needs four
StepPool == {100, 300, 70000}

\* n frames d apart, from f0
StepFrames(n, f0, d) == [i \in 1..n |-> U64(f0 + (i - 1) * d)]

\* 32-bit values on both sides of every length of varint: 0 and 2^7 - 1,
\* 2^7 and 2^14 - 1, 2^14 and 2^21 - 1, 2^21 and 2^28 - 1, 2^28 and 2^32 - 1,
\* and values with bits in several septets
VarintPool ==
    { U32(0, 0), U32(0, 127), U32(0, 128), U32(0, 16383), U32(0, 16384),
      U32(31, 65535), U32(32, 0), U32(4095, 65535), U32(4096, 0),
      U32(65535, 65535), U32(1, 464), U32(43690, 21845), U32(32768, 1) }

SeqsOf(pool, len) == UNION { [1..n -> pool] : n \in 0..len }

MetaOfV1 == MetaV1_new(T240, 0)
MetaOfV2 == MetaV2_new(T120, 3, Some(Seed2))

\* a V2 block as a file may hold it: no flag set, so the stored 0.5 is a dt
MetaBytesDt == CopyIn(MetaV2_to_bytes(MetaV2_new(U32(16128, 0), 1, None)), 2, <<0>>)
MetaOfDt == Unwrap(MetaV2_from_bytes(MetaBytesDt))

\* MetaV2::new with the seed 0, and a seed stored in the public field
\* rng_seed of a value built without one
MetaSeedZero == MetaV2_new(T120, 0, Some(U64Zero))
MetaSeedField == [MetaV2_new(T240, 0, None) EXCEPT !.rng_seed = Some(Seed1)]

MetaPool ==
    { MetaOfV1, MetaV1_new(T120, 7), MetaOfV2, MetaV2_new(T240, 0, None),
      MetaOfDt, MetaSeedZero, MetaSeedField }

TypeOf(meta) == IF meta.version = 1 THEN "V1" ELSE "V2"

(***************************************************************************)
(* State.                                                                  *)
(***************************************************************************)
VARIABLES
    replay,      \* the Replay value in hand: [meta, inputs]
    ty,          \* its metadata type parameter M: "V1", "V2" or "Dyn"
    orig,        \* the replay as first constructed
    out,         \* the bytes of the writer of the current / last serialize
    first_out,   \* the bytes written by the first serialize
    pos,         \* the reader's position in the stream being decoded
    pc,          \* where the program is
    round,       \* 1 for the first serialize, 2 for the re-serialize
    en,          \* locals of serialize_inputs_v2
    de,          \* locals of deserialize_inputs_v2
    meta_read,   \* the local `meta` of deserialize
    result,      \* the last operation and its outcome ("" is Ok)
    start_pos,   \* the reader's position when the decode in hand was called
    version,     \* the local `version` of from_reader
    chain        \* the replays the conversions so far were called on

vars ==
    <<replay, ty, orig, out, first_out, pos, pc, round, en, de, meta_read, result,
      start_pos, version, chain>>

Ok(op) == [op |-> op, err |-> ""]
Failed(op, err) == [op |-> op, err |-> err]

\* Replay::new(meta, inputs) with the type parameter t
NewReplay(meta, inputs, t) == replay = [meta |-> meta, inputs |-> inputs] /\ ty = t

Init ==
    /\ \* every order of the kinds of input, in each frame pattern: swift
       \* pairs, follow-up blobs at every position, segments, decreasing frames
       \/ \E m \in {MetaOfV1, MetaOfV2}, n \in 0..MaxLen :
             \E k \in [1..n -> KindPool], s \in Shapes(n) :
                NewReplay(m, MixSeq(n, k, s), TypeOf(m))
       \* every order of the wide-ranging frames, with at most one Restart
       \/ \E m \in {MetaOfV1, MetaOfV2}, n \in 0..MaxLen :
             \E f \in [1..n -> WidthFrames], r \in 0..n :
                NewReplay(m, WidthSeq(n, f, r), TypeOf(m))
       \* evenly spaced frames, with at most one Restart
       \/ \E n \in 2..MaxLen, f0 \in {0, 200}, d \in StepPool :
             \E r \in 0..n :
                NewReplay(MetaOfV2, WidthSeq(n, StepFrames(n, f0, d), r), "V2")
       \* one input at a frame of each length of varint
       \/ \E m \in {MetaOfV1, MetaOfV2}, v \in VarintPool :
             NewReplay(m, <<InputCommand(AsFrame(v), Vanilla(Left, TRUE, FALSE))>>,
                       TypeOf(m))
       \* every metadata value
       \/ \E m \in MetaPool, n \in 0..1 :
             \E k \in [1..n -> KindPool], s \in Shapes(n) :
                NewReplay(m, MixSeq(n, k, s), TypeOf(m))
       \* replays behind Box<dyn Meta>: every metadata value, and every
       \* order of one input of each kind
       \/ \E m \in MetaPool, n \in 0..1 :
             \E k \in [1..n -> KindPool], s \in Shapes(n) :
                NewReplay(m, MixSeq(n, k, s), "Dyn")
       \/ \E m \in {MetaOfV1, MetaOfV2}, n \in 2..(MaxLen - 1) :
             \E k \in [1..n -> DynKinds], s \in Shapes(n) :
                NewReplay(m, MixSeq(n, k, s), "Dyn")
    /\ orig = replay
    /\ out = <<>>
    /\ first_out = <<>>
    /\ pos = 0
    /\ pc = "new"
    /\ round = 0
    /\ en = EncoderInit
    /\ de = DecoderInit(U64Zero)
    /\ meta_read = None
    /\ result = Ok("new")
    /\ start_pos = 0
    /\ version = 0
    /\ chain = <<>>

Written(r) == IF r = 1 THEN "written" ELSE "rewritten"

(***************************************************************************)
(* ReplaySerializer::serialize (replay.rs 709-722); for M = V2 it enters   *)
(* the loop of serialize_inputs_v2.                                        *)
(***************************************************************************)
Serialize ==
    /\ pc \in {"new", "decoded", "converted"}
    /\ LET r == round + 1
           head == TCBOT_HEADER \o to_bytes(replay.meta)
           v1 == serialize_inputs_v1(replay.inputs)
           bytes == CASE M_version(ty) = 1 -> head \o v1.bytes
                      [] M_version(ty) = 2 /\ replay.inputs # <<>> ->
                            head \o write_var_u32(AsU32(replay.inputs[1].frame))
                      [] OTHER -> head
           err == CASE M_version(ty) = 1 -> v1.err
                    [] M_version(ty) = 2 -> ""
                    [] OTHER -> "panic: Unsupported meta version: 0"
           running == M_version(ty) = 2 /\ replay.inputs # <<>>
       IN  /\ round' = r
           /\ out' = bytes
           /\ first_out' = IF r = 1 /\ ~running /\ err = "" THEN bytes ELSE first_out
           /\ en' = EncoderInit
           /\ result' = IF running THEN Failed("serialize", "running")
                        ELSE Failed("serialize", err)
           /\ pc' = IF running THEN "enc" ELSE IF err = "" THEN Written(r) ELSE "halt"
    /\ pos' = 0    \* a new writer, read back from its start
    /\ UNCHANGED <<replay, ty, orig, de, meta_read, start_pos, version, chain>>

EncAction ==
    /\ pc = "enc"
    /\ IsSome(Peek(replay.inputs, en.idx))
    /\ en.next_blob.tag = "Action"
    /\ LET r == EncodeAction(replay.inputs, en)
       IN  /\ en' = r.e
           /\ out' = out \o r.bytes
           /\ pc' = IF r.err = "" THEN "enc" ELSE "halt"
           /\ result' = IF r.err = "" THEN result ELSE Failed("serialize", r.err)
    /\ UNCHANGED <<replay, ty, orig, first_out, pos, round, de, meta_read, start_pos, version, chain>>

EncFrameDelta ==
    /\ pc = "enc"
    /\ IsSome(Peek(replay.inputs, en.idx))
    /\ en.next_blob.tag = "FrameDelta"
    /\ LET r == SerializerDeltaInfo_serialize(en.next_delta)
       IN  /\ out' = out \o r.bytes
           /\ en' = IF r.err = "" THEN [en EXCEPT !.next_blob = SerializerBlob_Action]
                    ELSE en
           /\ pc' = IF r.err = "" THEN "enc" ELSE "halt"
           /\ result' = IF r.err = "" THEN result ELSE Failed("serialize", r.err)
    /\ UNCHANGED <<replay, ty, orig, first_out, pos, round, de, meta_read, start_pos, version, chain>>

EncTps ==
    /\ pc = "enc"
    /\ IsSome(Peek(replay.inputs, en.idx))
    /\ en.next_blob.tag = "Tps"
    /\ out' = out \o ToLeBytes(en.next_blob.v)
    /\ en' = [en EXCEPT !.next_blob = AfterDelta(en.next_delta)]
    /\ UNCHANGED <<replay, ty, orig, first_out, pos, pc, round, de, meta_read, result, start_pos, version, chain>>

EncSeed ==
    /\ pc = "enc"
    /\ IsSome(Peek(replay.inputs, en.idx))
    /\ en.next_blob.tag = "Seed"
    /\ out' = out \o ToLeBytes(en.next_blob.v)
    /\ en' = [en EXCEPT !.next_blob = AfterDelta(en.next_delta)]
    /\ UNCHANGED <<replay, ty, orig, first_out, pos, pc, round, de, meta_read, result, start_pos, version, chain>>

\* the loop condition `iter.peek().is_some()` fails: Ok(())
EncReturn ==
    /\ pc = "enc"
    /\ ~IsSome(Peek(replay.inputs, en.idx))
    /\ pc' = Written(round)
    /\ result' = Ok("serialize")
    /\ first_out' = IF round = 1 THEN out ELSE first_out
    /\ UNCHANGED <<replay, ty, orig, out, pos, round, en, de, meta_read, start_pos, version, chain>>

(***************************************************************************)
(* ReplayDeserializer::deserialize (replay.rs 725-751) for M = ty on the   *)
(* stream in hand, read from the reader's position; for V2 it enters the   *)
(* loop of deserialize_inputs_v2.                                          *)
(***************************************************************************)
\* what deserialize does from the reader position p: the next state's
\* pc, pos, de, meta_read, result, and the inputs if it returned
DeserializeFrom(buf, p, M, checks) ==
    LET env == deserialize_envelope(buf, p, M)
        v1 == deserialize_inputs_v1(buf, env.pos, checks)
        start == read_var_u32(buf, env.pos, checks)
    IN  CASE env.err # "" ->
                [pc |-> "halt", err |-> env.err, pos |-> env.pos, meta |-> None,
                 inputs |-> <<>>, de |-> DecoderInit(U64Zero)]
          [] env.err = "" /\ M = "V1" ->
                [pc |-> IF v1.err = "" THEN "decoded" ELSE "halt", err |-> v1.err,
                 pos |-> v1.pos, meta |-> env.meta, inputs |-> v1.inputs,
                 de |-> DecoderInit(U64Zero)]
          [] env.err = "" /\ M = "V2" /\ start.tag = "Ok" ->
                [pc |-> "dec", err |-> "running", pos |-> start.pos,
                 meta |-> env.meta, inputs |-> <<>>,
                 de |-> DecoderInit(AsFrame(start.value))]
          [] OTHER ->
                [pc |-> "halt",
                 err |-> IF start.tag = "Eof" THEN "UnexpectedEof"
                         ELSE "panic: shift overflow",
                 pos |-> start.pos, meta |-> env.meta, inputs |-> <<>>,
                 de |-> DecoderInit(U64Zero)]

Deserialize ==
    /\ pc \in {"written", "stream"}
    /\ ty \in {"V1", "V2"}
    /\ \E checks \in BOOLEAN :
         LET r == DeserializeFrom(out, pos, ty, checks)
         IN  /\ pc' = r.pc
             /\ pos' = r.pos
             /\ de' = r.de
             /\ meta_read' = r.meta
             /\ result' = Failed("deserialize", r.err)
             /\ replay' = IF r.pc = "decoded"
                          THEN [meta |-> Unwrap(r.meta), inputs |-> r.inputs]
                          ELSE replay
    /\ start_pos' = pos
    /\ UNCHANGED <<ty, orig, out, first_out, round, en, version, chain>>

\* `break` out of the loop: Ok(inputs), and deserialize returns the replay
DecBreak ==
    /\ pc' = "decoded"
    /\ result' = Ok("deserialize")
    /\ replay' = [meta |-> Unwrap(meta_read), inputs |-> de.inputs]

\* a failure that would end the loop like `break` does
DecFail_break(err) ==
    /\ pc' = "decoded"
    /\ result' = Ok("deserialize")
    /\ replay' = [meta |-> Unwrap(meta_read), inputs |-> de.inputs]

DecFail(err) ==
    /\ pc' = "halt"
    /\ result' = Failed("deserialize", err)
    /\ replay' = replay

DecAction ==
    /\ pc = "dec"
    /\ de.next_blob = "Action"
    /\ IF pos >= Len(out)
       THEN DecBreak /\ UNCHANGED <<pos, de>>
       ELSE /\ de' = DecodeAction(out[pos + 1], de)
            /\ pos' = pos + 1
            /\ UNCHANGED <<pc, result, replay>>
    /\ UNCHANGED <<ty, orig, out, first_out, round, en, meta_read, start_pos, version, chain>>

DecFrameDelta ==
    /\ pc = "dec"
    /\ de.next_blob = "FrameDelta"
    /\ LET r == DeserializerDeltaInfo_read(de.next_delta, out, pos, de.last_delta)
       IN  IF r.err # ""
           THEN DecBreak /\ pos' = r.pos /\ UNCHANGED de
           ELSE /\ de' = [de EXCEPT !.current_frame = U64Add(de.current_frame, r.result),
                                    !.last_delta = r.p_last_delta,
                                    !.next_blob = "Action"]
                /\ pos' = r.pos
                /\ UNCHANGED <<pc, result, replay>>
    /\ UNCHANGED <<ty, orig, out, first_out, round, en, meta_read, start_pos, version, chain>>

\* a Tps arm that would wait for a second tick rate
DecTps_again ==
    /\ pc = "dec"
    /\ de.next_blob = "Tps"
    /\ IF pos + 4 > Len(out)
       THEN /\ pc' = "halt"
            /\ result' = Failed("deserialize", "UnexpectedEof")
            /\ pos' = Len(out)
            /\ UNCHANGED <<de, replay>>
       ELSE /\ de' = [de EXCEPT !.inputs = Append(de.inputs,
                                     InputCommand(de.current_frame,
                                         Tps(FromLeBytes(SubSeq(out, pos + 1, pos + 4))))),
                                !.next_blob = "Tps"]
            /\ pos' = pos + 4
            /\ UNCHANGED <<pc, result, replay>>
    /\ UNCHANGED <<ty, orig, out, first_out, round, en, meta_read, start_pos, version, chain>>

\* a Tps arm that would lose the delta bits of the action byte
DecTps_forgetful ==
    /\ pc = "dec"
    /\ de.next_blob = "Tps"
    /\ IF pos + 4 > Len(out)
       THEN /\ pc' = "halt"
            /\ result' = Failed("deserialize", "UnexpectedEof")
            /\ pos' = Len(out)
            /\ UNCHANGED <<de, replay>>
       ELSE /\ de' = [de EXCEPT !.inputs = Append(de.inputs,
                                     InputCommand(de.current_frame,
                                         Tps(FromLeBytes(SubSeq(out, pos + 1, pos + 4))))),
                                !.next_delta = DeserializerDeltaInfo_default,
                                !.next_blob = "FrameDelta"]
            /\ pos' = pos + 4
            /\ UNCHANGED <<pc, result, replay>>
    /\ UNCHANGED <<ty, orig, out, first_out, round, en, meta_read, start_pos, version, chain>>

DecTps ==
    /\ pc = "dec"
    /\ de.next_blob = "Tps"
    /\ IF pos + 4 > Len(out)
       THEN DecFail("UnexpectedEof") /\ pos' = Len(out) /\ UNCHANGED de
       ELSE /\ de' = [de EXCEPT !.inputs = Append(de.inputs,
                                     InputCommand(de.current_frame,
                                         Tps(FromLeBytes(SubSeq(out, pos + 1, pos + 4))))),
                                !.next_blob = "FrameDelta"]
            /\ pos' = pos + 4
            /\ UNCHANGED <<pc, result, replay>>
    /\ UNCHANGED <<ty, orig, out, first_out, round, en, meta_read, start_pos, version, chain>>

\* the Seed arm leaves next_blob as it is
DecSeed ==
    /\ pc = "dec"
    /\ de.next_blob = "Seed"
    /\ IF ~IsSome(de.awaiting_seed)
       THEN DecFail("Unexpected seed input") /\ UNCHANGED <<pos, de>>
       ELSE IF pos + 8 > Len(out)
       THEN /\ DecFail("UnexpectedEof")
            /\ pos' = Len(out)
            /\ de' = [de EXCEPT !.awaiting_seed = None]
       ELSE /\ de' = [de EXCEPT !.inputs = Append(de.inputs,
                                     InputCommand(Unwrap(de.awaiting_seed)[2],
                                         Restart(Unwrap(de.awaiting_seed)[1],
                                             Some(FromLeBytes(
                                                 SubSeq(out, pos + 1, pos + 8)))))),
                                !.awaiting_seed = None]
            /\ pos' = pos + 8
            /\ UNCHANGED <<pc, result, replay>>
    /\ UNCHANGED <<ty, orig, out, first_out, round, en, meta_read, start_pos, version, chain>>

(***************************************************************************)
(* DynamicReplay::to_v1 (replay.rs 857-876).                               *)
(***************************************************************************)
\* a loop that would reject Tps inputs only
RECURSIVE to_v1_check_tps(_, _)
to_v1_check_tps(inputs, i) ==
    IF i > Len(inputs) THEN ""
    ELSE IF inputs[i].input.kind = "Tps" THEN "TPS changes not supported in V1"
    ELSE to_v1_check_tps(inputs, i + 1)

\* the first input the loop of to_v1 rejects, as its error message
RECURSIVE to_v1_check(_, _)
to_v1_check(inputs, i) ==
    IF i > Len(inputs) THEN ""
    ELSE CASE inputs[i].input.kind = "Tps" -> "TPS changes not supported in V1"
           [] inputs[i].input.kind = "Bugpoint" -> "Bugpoint inputs not supported in V1"
           [] OTHER -> to_v1_check(inputs, i + 1)

\* a conversion that would carry the source's append counter over
to_v1_keep_counter(r) ==
    LET e == to_v1_check(r.inputs, 1)
    IN  IF e # "" THEN [err |-> e, replay |-> r]
        ELSE [err |-> "",
              replay |-> [meta |-> [version |-> 1, tps |-> tps(r.meta),
                                     append_counter |-> r.meta.append_counter],
                          inputs |-> r.inputs]]

\* the longest chain of conversions followed
MaxConv == 2

\* a conversion consumes the replay in hand; the one it returns is a newly
\* built replay that no serialize has written yet
Converted(r) ==
    /\ chain' = Append(chain, replay)
    /\ orig' = r
    /\ round' = 0
    /\ first_out' = <<>>

to_v1(r) ==
    LET e == to_v1_check(r.inputs, 1)
    IN  IF e # "" THEN [err |-> e, replay |-> r]
        ELSE [err |-> "",
              replay |-> [meta |-> [version |-> 1, tps |-> tps(r.meta),
                                     append_counter |-> 0],
                          inputs |-> r.inputs]]

ToV1 ==
    /\ pc \in {"new", "boxed", "decoded"}
    /\ ty = "Dyn"
    /\ Len(chain) < MaxConv
    /\ LET r == to_v1(replay)
       IN  /\ replay' = r.replay
           /\ result' = Failed("to_v1", r.err)
           /\ pc' = IF r.err = "" THEN "converted" ELSE "halt"
           /\ ty' = IF r.err = "" THEN "V1" ELSE ty
           /\ IF r.err = "" THEN Converted(r.replay)
              ELSE UNCHANGED <<chain, orig, round, first_out>>
    /\ UNCHANGED <<out, pos, en, de, meta_read, start_pos, version>>

(***************************************************************************)
(* DynamicReplay::to_v2 (replay.rs 879-893).                               *)
(***************************************************************************)
\* an or_else that would never fall back on the alternative
or_else_never(o, alt) == o

\* Option::or_else with the value the closure returns
or_else(o, alt) == IF IsSome(o) THEN o ELSE alt

to_v2(r, seed) ==
    LET final_seed == or_else(seed, rng_seed(r.meta))
        meta_v2 == MetaV2_new(tps(r.meta), 0, final_seed)
    IN  [meta |-> meta_v2, inputs |-> r.inputs]

to_v2_preserve_seed(r) == to_v2(r, None)

\* the seeds to_v2 is called with
SeedArgs == {None, Some(Seed1)}

ToV2 ==
    /\ pc = "new"
    /\ ty = "Dyn"
    /\ \E seed \in SeedArgs :
          /\ replay' = IF seed = None THEN to_v2_preserve_seed(replay)
                       ELSE to_v2(replay, seed)
          /\ result' = [op |-> "to_v2", err |-> "", arg |-> seed]
    /\ pc' = "converted"
    /\ ty' = "V2"
    /\ Converted(replay')
    /\ UNCHANGED <<out, pos, en, de, meta_read, start_pos, version>>

\* the converted replay behind Box<dyn Meta>:
\* Replay { meta: Box::new(meta) as Box<dyn Meta>, inputs }
IntoDynamic ==
    /\ pc = "converted"
    /\ ty' = "Dyn"
    /\ pc' = "boxed"
    /\ result' = Ok("box")
    /\ UNCHANGED <<replay, orig, out, first_out, pos, round, en, de, meta_read,
                   start_pos, version, chain>>

(***************************************************************************)
(* DynamicReplay::from_reader (replay.rs 820-854): the version peek, then  *)
(* the match on the version byte.                                          *)
(***************************************************************************)
\* a seek that would leave the reader where it is
seek_nowhere(cur, target) == cur

\* reader.seek(SeekFrom::Start(target)) on a reader at position cur
seek_Start(cur, target) == target

\* a match that would send every version but 1 to the V2 decoder
match_version_lenient(v) == IF v = 1 THEN "V1" ELSE "V2"

\* the arm of `match version` taken
match_version(v) ==
    CASE v = 1 -> "V1"
      [] v = 2 -> "V2"
      [] OTHER -> "Unsupported version"

\* stream_position, seek past the header, read one byte, seek back
FromReaderPeek ==
    /\ \/ pc = "stream" /\ ty = "Dyn"
       \/ pc = "written" /\ chain # <<>>    \* the file of a converted replay
    /\ ty' = "Dyn"
    /\ LET current_pos == pos
           at == seek_Start(pos, current_pos + HEADER_SIZE)
       IN  IF at + 1 > Len(out)
           THEN /\ pc' = "halt"
                /\ result' = Failed("from_reader", "UnexpectedEof")
                /\ pos' = at
                /\ UNCHANGED version
           ELSE /\ version' = out[at + 1]
                /\ pos' = seek_Start(at + 1, current_pos)
                /\ pc' = "peeked"
                /\ result' = Failed("from_reader", "running")
    /\ start_pos' = pos
    /\ UNCHANGED <<replay, orig, out, first_out, round, en, de, meta_read, chain>>

FromReaderDispatch ==
    /\ pc = "peeked"
    /\ LET M == match_version(version)
       IN  IF M = "Unsupported version"
           THEN /\ pc' = "halt"
                /\ result' = [op |-> "from_reader", err |-> "Unsupported version: ",
                              arg |-> version]
                /\ UNCHANGED <<pos, de, meta_read, replay>>
           ELSE \E checks \in BOOLEAN :
                  LET r == DeserializeFrom(out, pos, M, checks)
                  IN  /\ pc' = r.pc
                      /\ pos' = r.pos
                      /\ de' = r.de
                      /\ meta_read' = r.meta
                      /\ result' = Failed("deserialize", r.err)
                      /\ replay' = IF r.pc = "decoded"
                                   THEN [meta |-> Unwrap(r.meta), inputs |-> r.inputs]
                                   ELSE replay
    /\ UNCHANGED <<ty, orig, out, first_out, round, en, start_pos, version, chain>>

Next ==
    \/ Serialize
    \/ EncAction
    \/ EncFrameDelta
    \/ EncTps
    \/ EncSeed
    \/ EncReturn
    \/ Deserialize
    \/ DecAction
    \/ DecFrameDelta
    \/ DecTps
    \/ DecSeed
    \/ ToV1
    \/ ToV2
    \/ IntoDynamic
    \/ FromReaderPeek
    \/ FromReaderDispatch

Spec == Init /\ [][Next]_vars

(***************************************************************************)
(* The decoders on streams of any content: a reader at position start_pos *)
(* over a stream that need not come from serialize.                        *)
(***************************************************************************)
\* the magic sequence with the byte at position i changed
Corrupt(i) == [TCBOT_HEADER EXCEPT ![i] = (@ + 1) % 256]

HeaderPool == {TCBOT_HEADER, Zeros(HEADER_SIZE)} \cup { Corrupt(i) : i \in 1..HEADER_SIZE }

\* metadata bytes with the version byte set to v
WithVersion(bytes, v) == [bytes EXCEPT ![1] = v]

\* pieces of input streams: varints, action and control bytes, follow-up blobs
ChunkPool ==
    { <<0>>, <<1>>, <<200, 1>>, <<69>>, <<17>>, <<12>>, <<28>>, <<16>>,
      <<0, 0, 240, 66>>, <<1, 2, 3, 4, 5, 6, 7, 8>>, <<204>> }

MaxChunks == 3

RECURSIVE Flatten(_)
Flatten(chunks) ==
    IF chunks = <<>> THEN <<>> ELSE Head(chunks) \o Flatten(Tail(chunks))

\* bytes in front of the replay when the reader does not start at 0
Junk == <<7, 7, 7>>

\* a reader at position p of the stream, handed to the decode for t
ReaderOn(stream, p, t) == out = stream /\ pos = p /\ ty = t

BytesOfV1 == to_bytes(MetaOfV1)
BytesOfV2 == to_bytes(MetaOfV2)

\* a V2 metadata block with the flags byte f, the stored f32 t and the
\* seed bytes of s
BlockOfV2(f, t, s) ==
    CopyIn(CopyIn(CopyIn(Zeros(MetaSize), 0, <<2, 1, f>>), 4, ToLeBytes(t)),
           8, ToLeBytes(s))

\* an input stream of one release of Jump at frame 0
OneInput == <<0, 1>>

\* what may come after the last record of a V1 stream: the terminator,
\* another byte, nothing
TailPool == {<<204>>, <<7>>, <<>>}

\* a V1 input stream of one record, at frame 5, with the control byte b
OneRecord(b) == <<1, 5, b>>

\* a V2 input stream that starts at frame 5 with the action byte b
OneAction(b) == <<5, b>>

\* what may come after that action byte: nothing, or bytes for a blob
BlobPool == {<<>>, <<1, 2, 3, 4, 5, 6, 7, 8>>}

InitDec ==
    /\ \* any header, a few version bytes, either start position
       \/ \E j \in {<<>>, Junk}, h \in HeaderPool, v \in {0, 1, 2, 3, 255},
             t \in {"V1", "V2", "Dyn"} :
                ReaderOn(j \o h \o WithVersion(BytesOfV1, v) \o <<0>>, Len(j), t)
       \* every version byte under a good and two bad headers
       \/ \E h \in {TCBOT_HEADER, Corrupt(1), Corrupt(HEADER_SIZE)}, v \in 0..255,
             t \in {"V1", "V2", "Dyn"} :
                ReaderOn(h \o WithVersion(BytesOfV2, v) \o <<0>>, 0, t)
       \* streams that end in or right after the header, or in the metadata
       \/ \E h \in {TCBOT_HEADER, Corrupt(3)}, n \in {0, 15, 16, 17, 79},
             t \in {"V1", "V2", "Dyn"} :
                ReaderOn(SubSeq(h \o BytesOfV1, 1, n), 0, t)
       \* a good envelope of either version in front of any input stream
       \/ \E c \in SeqsOf(ChunkPool, MaxChunks) :
             \/ ReaderOn(TCBOT_HEADER \o BytesOfV1 \o Flatten(c), 0, "V1")
             \/ ReaderOn(TCBOT_HEADER \o BytesOfV2 \o Flatten(c), 0, "V2")
       \/ \E c \in SeqsOf(ChunkPool, MaxChunks - 1), b \in {BytesOfV1, BytesOfV2} :
             ReaderOn(TCBOT_HEADER \o b \o Flatten(c), 0, "Dyn")
       \* every flags byte in a V2 metadata block, with and without seed bytes
       \/ \E f \in 0..255, s \in {U64Zero, Seed2}, v \in {T240, U32(16128, 0)},
             t \in {"V2", "Dyn"} :
                ReaderOn(TCBOT_HEADER \o BlockOfV2(f, v, s) \o OneInput, 0, t)
       \* every control byte in a V1 record, with and without the terminator
       \/ \E b \in 0..255, tail \in TailPool, t \in {"V1", "Dyn"} :
             ReaderOn(TCBOT_HEADER \o BytesOfV1 \o OneRecord(b) \o tail, 0, t)
       \* every action byte at the start of a V2 stream
       \/ \E b \in 0..255, tail \in BlobPool :
             ReaderOn(TCBOT_HEADER \o BytesOfV2 \o OneAction(b) \o tail, 0, "V2")
    /\ replay = [meta |-> MetaOfV1, inputs |-> <<>>]
    /\ orig = replay
    /\ first_out = <<>>
    /\ pc = "stream"
    /\ round = 0
    /\ en = EncoderInit
    /\ de = DecoderInit(U64Zero)
    /\ meta_read = None
    /\ result = Ok("new")
    /\ start_pos = pos
    /\ version = 0
    /\ chain = <<>>

DecNext ==
    \/ Deserialize
    \/ FromReaderPeek
    \/ FromReaderDispatch
    \/ DecAction
    \/ DecFrameDelta
    \/ DecTps
    \/ DecSeed

DecSpec == InitDec /\ [][DecNext]_vars

(***************************************************************************)
(* The two loops under fairness.  serialize_inputs_v2 and                  *)
(* deserialize_inputs_v2 are sequential loops that wait for nothing: once  *)
(* entered, an iteration that can run does run, which is weak fairness of  *)
(* the loop's steps.  The calls that enter a loop are left to the caller.  *)
(***************************************************************************)
EncLoop == EncAction \/ EncFrameDelta \/ EncTps \/ EncSeed \/ EncReturn

DecLoop == DecAction \/ DecFrameDelta \/ DecTps \/ DecSeed

\* V2 replays to write (every order of the kinds of input, from frame 200
\* on), and V2 streams to read (the pieces of input streams in any order)
LiveInit ==
    \/ /\ Init
       /\ ty = "V2"
       /\ replay.meta = MetaOfV2
       /\ Len(replay.inputs) < MaxLen
       /\ \A i \in 1..Len(replay.inputs) :
             replay.inputs[i].frame = U64(IF i = 1 THEN 200 ELSE 500)
                 \/ replay.inputs[i].frame = U64(200)
    \/ /\ InitDec
       /\ ty = "V2"
       /\ \E c \in SeqsOf(ChunkPool, MaxChunks - 1) :
             out = TCBOT_HEADER \o BytesOfV2 \o Flatten(c)

LiveNext ==
    \/ Serialize
    \/ EncAction
    \/ EncFrameDelta
    \/ EncTps
    \/ EncSeed
    \/ EncReturn
    \/ Deserialize
    \/ DecAction
    \/ DecFrameDelta
    \/ DecTps
    \/ DecSeed

LiveSpec ==
    /\ LiveInit
    /\ [][LiveNext]_vars
    /\ WF_vars(EncLoop)
    /\ WF_vars(DecLoop)

(***************************************************************************)
(* Properties.                                                             *)
(***************************************************************************)
IsTpsOrBugpoint(cmd) == cmd.input.kind \in {"Tps", "Bugpoint"}

HasTpsOrBugpoint(inputs) == \E i \in 1..Len(inputs) : IsTpsOrBugpoint(inputs[i])

\* frames do not decrease from an input to the next unless the earlier one
\* is a Restart
Ordered(inputs) ==
    \A i \in 1..(Len(inputs) - 1) :
        \/ inputs[i].input.kind = "Restart"
        \/ U64Le(inputs[i].frame, inputs[i + 1].frame)

Fits32(a) == a[3] = 0 /\ a[4] = 0

\* the start frame and every delta fit in 32 bits
DeltasFit(inputs) ==
    /\ Fits32(inputs[1].frame)
    /\ \A i \in 1..(Len(inputs) - 1) :
           Fits32(SaturatingSub(inputs[i + 1].frame, adjusted_frame(inputs[i])))

\* the first decode of the first serialize has returned or failed
RoundTripDone == round = 1 /\ pc \in {"decoded", "halt"}

\* C1: a V2 replay with a non-empty input list, frames non-decreasing within
\* each segment, start frame and deltas within 32 bits, and any mix of
\* inputs at any position, is decoded from its serialized bytes to the same
\* metadata and the same inputs.
C1_V2RoundTrip ==
    (/\ ty = "V2"
     /\ RoundTripDone
     /\ orig.inputs # <<>>
     /\ Ordered(orig.inputs)
     /\ DeltasFit(orig.inputs))
    => (pc = "decoded" /\ replay = orig)

\* C2: a replay of either version with an empty input list is decoded from
\* its serialized bytes to the same metadata and an empty input list.
C2_EmptyRoundTrip ==
    (ty \in {"V1", "V2"} /\ RoundTripDone /\ orig.inputs = <<>>)
    => (pc = "decoded" /\ replay.meta = orig.meta /\ replay.inputs = <<>>)

C3_Valid(inputs) ==
    \A i \in 1..Len(inputs) :
        /\ Fits32(inputs[i].frame)
        /\ \/ inputs[i].input.kind = "Vanilla"
           \/ /\ inputs[i].input.kind = "Restart"
              /\ inputs[i].input.new_seed = None

\* C3: a V1 replay of Vanilla inputs and unseeded Restart inputs at frames
\* below 2^32 is decoded from its serialized bytes with the same tps, the
\* same number of inputs and, per index, the same frame and the same input.
C3_V1RoundTrip ==
    (ty = "V1" /\ RoundTripDone /\ C3_Valid(orig.inputs))
    => /\ pc = "decoded"
       /\ tps(replay.meta) = tps(orig.meta)
       /\ Len(replay.inputs) = Len(orig.inputs)
       /\ \A i \in 1..Len(orig.inputs) :
              /\ replay.inputs[i].frame = orig.inputs[i].frame
              /\ replay.inputs[i].input = orig.inputs[i].input

C3_Witness ==
    /\ ty = "V1"
    /\ RoundTripDone
    /\ pc = "decoded"
    /\ C3_Valid(orig.inputs)
    /\ Len(orig.inputs) = MaxLen
    /\ \E i \in 1..Len(orig.inputs) : orig.inputs[i].input.kind = "Restart"
    /\ \E i \in 1..Len(orig.inputs) : orig.inputs[i].frame = U64(66000)

\* the second serialize, of the replay decoded from the first one's bytes,
\* has returned or failed
ReEncodeDone == round = 2 /\ pc \in {"rewritten", "halt"} /\ ty \in {"V1", "V2"}

\* C4 as stated: every stream written by serialize that decodes is written
\* again, byte for byte, by serializing the decoded replay.
C4_ByteExact == ReEncodeDone => (pc = "rewritten" /\ out = first_out)

\* C4, amended: every stream written by serialize from a replay whose frames
\* are non-decreasing within each segment, and that decodes, is written
\* again, byte for byte, by serializing the decoded replay.
C4_ByteExactOrdered ==
    (ReEncodeDone /\ Ordered(orig.inputs)) => (pc = "rewritten" /\ out = first_out)

C4_Witness ==
    /\ ReEncodeDone
    /\ ty = "V2"
    /\ Ordered(orig.inputs)
    /\ Len(orig.inputs) = MaxLen
    /\ orig.inputs[1].frame # orig.inputs[2].frame
    /\ out = first_out

\* C9: serializing a V1 replay fails with the error "Unsupported input type
\* in v1 replay" when an input is a Tps or a Bugpoint, and succeeds when
\* every input is a Vanilla or a Restart.
C9_V1Unsupported ==
    (ty = "V1" /\ round = 1 /\ result.op = "serialize")
    => IF HasTpsOrBugpoint(orig.inputs)
       THEN pc = "halt" /\ result.err = "Unsupported input type in v1 replay"
       ELSE pc = "written" /\ result.err = ""

C9_Witness ==
    /\ ty = "V1"
    /\ round = 1
    /\ result.op = "serialize"
    /\ Len(orig.inputs) = MaxLen
    /\ ~IsTpsOrBugpoint(orig.inputs[1])
    /\ orig.inputs[MaxLen].input.kind = "Bugpoint"
    /\ result.err = "Unsupported input type in v1 replay"

\* C10: to_v1 returns an error value exactly when an input is a Tps or a
\* Bugpoint, and returns the V1 replay otherwise.
C10_ToV1Partial ==
    result.op = "to_v1"
    => IF HasTpsOrBugpoint(replay.inputs)
       THEN /\ pc = "halt"
            /\ result.err \in {"TPS changes not supported in V1",
                               "Bugpoint inputs not supported in V1"}
       ELSE pc = "converted" /\ result.err = ""

C10_Witness ==
    /\ result.op = "to_v1"
    /\ pc = "halt"
    /\ orig.meta.version = 2
    /\ Len(orig.inputs) = 2
    /\ orig.inputs[1].input.kind = "Restart"
    /\ orig.inputs[2].input.kind = "Bugpoint"

(***************************************************************************)
(* Properties of the V2 input stream.                                      *)
(***************************************************************************)
\* two Vanilla inputs at one frame for the same button of the same player,
\* one a push and one a release
SwiftPair(a, b) ==
    /\ a.input.kind = "Vanilla"
    /\ b.input.kind = "Vanilla"
    /\ a.frame = b.frame
    /\ a.input.button = b.input.button
    /\ a.input.player2 = b.input.player2
    /\ a.input.push = ~b.input.push

Bit(byte, k) == (byte \div 2^k) % 2 = 1

\* the encoder writes an action byte in this step
EncActionStep == pc = "enc" /\ en.next_blob.tag = "Action" /\ pc' = "enc"

\* the decoder reads an action byte in this step
DecActionStep == pc = "dec" /\ de.next_blob = "Action" /\ pos' = pos + 1

\* the Vanilla input the byte holds, at the frame f
VanillaOf(byte, f, push) ==
    InputCommand(f, Vanilla(byte % 4, push, Bit(byte, 3)))

\* C14: an action on a Vanilla input followed at once by a Vanilla input of
\* the same frame, button and player2 and the opposite push writes one byte
\* for the two, with bit 4 set and the push bit of the first; the decoder
\* turns a Vanilla byte with bit 4 set into those two commands, the stored
\* push first and its inverse second, at one frame; an action on a Vanilla
\* input in any other situation writes a byte with bit 4 clear.
C14_SwiftLaw ==
    /\ [][EncActionStep =>
            LET i == en.idx + 1
                cur == replay.inputs[i]
                byte == out'[Len(out')]
            IN  /\ Len(out') = Len(out) + 1
                /\ cur.input.kind = "Vanilla" =>
                      IF i < Len(replay.inputs) /\ SwiftPair(cur, replay.inputs[i + 1])
                      THEN /\ Bit(byte, 4)
                           /\ VanillaOf(byte, cur.frame, Bit(byte, 2)) = cur
                           /\ en'.idx = i + 1
                      ELSE /\ ~Bit(byte, 4)
                           /\ VanillaOf(byte, cur.frame, Bit(byte, 2)) = cur
                           /\ en'.idx = i]_vars
    /\ [][DecActionStep =>
            LET byte == out[pos + 1]
                f == de.current_frame
                first == VanillaOf(byte, f, Bit(byte, 2))
                second == VanillaOf(byte, f, ~Bit(byte, 2))
            IN  byte % 4 # 0 =>
                   IF Bit(byte, 4)
                   THEN de'.inputs = de.inputs \o <<first, second>>
                   ELSE de'.inputs = de.inputs \o <<first>>]_vars
    /\ []((ty = "V2" /\ RoundTripDone /\ pc = "decoded")
           => \A i \in 1..(Len(orig.inputs) - 1) :
                 SwiftPair(orig.inputs[i], orig.inputs[i + 1])
                 => /\ Len(replay.inputs) > i
                    /\ replay.inputs[i].input = orig.inputs[i].input
                    /\ replay.inputs[i + 1].input = orig.inputs[i + 1].input
                    /\ replay.inputs[i + 1].frame = replay.inputs[i].frame)

\* the input at i and the inputs of the actions before and after it are at
\* frames d apart, d > 255, and neither of the first two is a Restart
EvenSteps(inputs, i, after) ==
    /\ i > 1
    /\ after <= Len(inputs)
    /\ inputs[i - 1].input.kind # "Restart"
    /\ inputs[i].input.kind # "Restart"
    /\ ~U64Le(inputs[i].frame, inputs[i - 1].frame)
    /\ ~U64Le(inputs[after].frame, inputs[i].frame)
    /\ U64Sub(inputs[i].frame, inputs[i - 1].frame)
          = U64Sub(inputs[after].frame, inputs[i].frame)
    /\ ~U64Le(U64Sub(inputs[i].frame, inputs[i - 1].frame), U64(255))

\* C15: when three consecutive actions of one segment are at frames
\* f0 < f1 < f2 with f1 - f0 = f2 - f1 = d and d > 255, the byte of the
\* second action has the magic flag (bit 5) set and the width selector
\* (bits 6 and 7) 0, less than the selector of any width that holds d, and
\* no delta bytes follow it.
C15_DeltaLaw ==
    [][(EncActionStep /\ EvenSteps(replay.inputs, en.idx + 1, en'.idx + 1))
       => LET byte == out'[Len(out')]
          IN  /\ Bit(byte, 5)
              /\ byte \div 64 = BlobZero
              /\ \A b \in {BlobOne, BlobTwo, BlobFour} :
                    U64Le(U64Sub(replay.inputs[en.idx + 1].frame,
                                 replay.inputs[en.idx].frame), ByteBlob_max(b))
                    => byte \div 64 < b
              /\ en'.next_blob.tag # "FrameDelta"]_vars

\* a written stream of three Vanilla inputs 70000 frames apart
C15_Witness ==
    /\ ty = "V2"
    /\ pc = "written"
    /\ Len(replay.inputs) = 3
    /\ EvenSteps(replay.inputs, 2, 3)
    /\ replay.inputs[2].frame = U64(70200)
    /\ Len(out) = HEADER_SIZE + MetaSize + 2 + 1 + 4 + 1 + 1

\* the action byte is a Restart (custom types 0, 1, 2); bit 4 says a seed
\* follows
RestartByte(byte) == byte % 4 = 0 /\ (byte \div 4) % 4 # 3

\* C16: the V2 decoder records a Restart at the running frame held before
\* the reset and sets the running frame to 0 at the restart action, with a
\* seed and without; the input after a Restart is at the delta written
\* after the restart action alone, which is the frame the encoded replay
\* had there, whatever the frames before the Restart.
C16_FrameReset ==
    /\ [][(DecActionStep /\ RestartByte(out[pos + 1]))
          => LET byte == out[pos + 1]
                 ty_ == (byte \div 4) % 4
             IN  /\ de'.current_frame = U64Zero
                 /\ IF Bit(byte, 4)
                    THEN /\ de'.awaiting_seed = Some(<<ty_, de.current_frame>>)
                         /\ de'.inputs = de.inputs
                    ELSE de'.inputs = Append(de.inputs,
                            InputCommand(de.current_frame, Restart(ty_, None)))]_vars
    /\ [][(pc = "dec" /\ de.next_blob = "Seed" /\ de'.inputs # de.inputs)
          => /\ de'.current_frame = U64Zero
             /\ Len(de'.inputs) = Len(de.inputs) + 1
             /\ LET cmd == de'.inputs[Len(de'.inputs)]
                IN  /\ cmd.frame = Unwrap(de.awaiting_seed)[2]
                    /\ cmd.input.kind = "Restart"
                    /\ IsSome(cmd.input.new_seed)]_vars
    /\ [](pc = "dec"
          => \A i \in 1..(Len(de.inputs) - 1) :
                de.inputs[i].input.kind = "Restart"
                => de.inputs[i + 1].frame = orig.inputs[i + 1].frame)

\* a decoded sequence whose Restart at 66000 is followed by an input at 200
C16_Witness ==
    /\ pc = "dec"
    /\ Len(de.inputs) = 3
    /\ de.inputs[1].frame = U64(500)
    /\ de.inputs[2] = InputCommand(U64(66000), Restart(RestartKind, None))
    /\ de.inputs[3].frame = U64(200)

\* a decoded replay that began with a swift pair and went on at a later frame
C14_Witness ==
    /\ ty = "V2"
    /\ RoundTripDone
    /\ pc = "decoded"
    /\ Len(orig.inputs) = 3
    /\ SwiftPair(orig.inputs[1], orig.inputs[2])
    /\ orig.inputs[3].frame # orig.inputs[1].frame
    /\ Bit(out[HEADER_SIZE + MetaSize + 3], 4)
    /\ replay = orig

(***************************************************************************)
(* Properties of the conversions.                                          *)
(***************************************************************************)
\* the step is a to_v1 call that returned the converted replay
ToV1Returned == pc # "converted" /\ pc' = "converted" /\ result'.op = "to_v1"

\* C11: a to_v1 call that succeeds returns V1 metadata with the tps() of
\* the source and append_counter 0, whose rng_seed() is None whatever seed
\* the source carried, and the source's input sequence unchanged.
C11_ToV1Result ==
    [][ToV1Returned
       => /\ ty' = "V1"
          /\ version_instance(replay'.meta) = 1
          /\ tps(replay'.meta) = tps(replay.meta)
          /\ replay'.meta.append_counter = 0
          /\ rng_seed(replay'.meta) = None
          /\ replay'.inputs = replay.inputs]_vars

C11_Witness ==
    /\ pc = "converted"
    /\ result.op = "to_v1"
    /\ Len(chain) = 1
    /\ rng_seed(chain[1].meta) = Some(Seed2)
    /\ chain[1].meta.append_counter = 3
    /\ Len(replay.inputs) = 2
    /\ replay.inputs[2].input = Restart(RestartFull, Some(Seed1))

\* the step is a to_v2 call
ToV2Called == pc = "new" /\ ty = "Dyn" /\ result'.op = "to_v2"

\* C12: to_v2 returns for every replay and every seed argument; what it
\* returns is V2 metadata with the tps() of the source, append_counter 0 and
\* the seed argument as rng_seed when one is given, the rng_seed() of the
\* source otherwise (None for a V1 source), and the source's input sequence
\* unchanged.
C12_ToV2Result ==
    /\ []((pc = "new" /\ ty = "Dyn") => ENABLED ToV2)
    /\ [][ToV2Called
          => /\ pc' = "converted"
             /\ result'.err = ""
             /\ ty' = "V2"
             /\ version_instance(replay'.meta) = 2
             /\ tps(replay'.meta) = tps(replay.meta)
             /\ replay'.meta.append_counter = 0
             /\ rng_seed(replay'.meta) =
                    IF IsSome(result'.arg) THEN result'.arg
                    ELSE IF replay.meta.version = 1 THEN None
                    ELSE replay.meta.rng_seed
             /\ replay'.inputs = replay.inputs]_vars

C12_Witness ==
    /\ pc = "converted"
    /\ result.op = "to_v2"
    /\ result.arg = None
    /\ chain[1].meta = MetaOfV2
    /\ rng_seed(replay.meta) = Some(Seed2)
    /\ Len(replay.inputs) = 2
    /\ replay.inputs[1].input.kind = "Tps"

\* the conversions started with to_v2(None) on a replay with V1 metadata
\* whose inputs a V1 file can hold
FromV1ViaV2 ==
    /\ chain # <<>>
    /\ chain[1].meta.version = 1
    /\ C3_Valid(chain[1].inputs)
    /\ LET v2 == IF Len(chain) = 1 THEN orig ELSE chain[2]
       IN  v2.meta.version = 2 /\ rng_seed(v2.meta) = None

\* a step of the chain failed: the serialize of the V2 replay, from_reader
\* on its file, or to_v1
ChainFailed ==
    /\ pc = "halt"
    /\ Len(chain) = 1
    /\ \/ result.op = "to_v1"
       \/ ty = "V2" /\ result.op = "serialize"
       \/ ty = "Dyn" /\ result.op \in {"from_reader", "deserialize"}

\* to_v1 has returned the tps and the inputs the chain started from
ChainReturned ==
    (Len(chain) = 2 /\ result.op = "to_v1")
    => /\ pc = "converted"
       /\ tps(replay.meta) = tps(chain[1].meta)
       /\ replay.inputs = chain[1].inputs

\* C13: for a V1 replay, to_v2(None) followed by to_v1 succeeds and returns
\* the tps and the input sequence of the original, directly and when the
\* V2 replay is serialized and read back by from_reader in between.
C13_V1V2V1 == FromV1ViaV2 => (~ChainFailed /\ ChainReturned)

(***************************************************************************)
(* Properties of the decoders on any stream.                               *)
(***************************************************************************)
\* the 16 bytes at the reader's starting position are the magic sequence
HeaderMatches ==
    /\ start_pos + HEADER_SIZE <= Len(out)
    /\ SubSeq(out, start_pos + 1, start_pos + HEADER_SIZE) = TCBOT_HEADER

HeaderDiffers ==
    /\ start_pos + HEADER_SIZE <= Len(out)
    /\ SubSeq(out, start_pos + 1, start_pos + HEADER_SIZE) # TCBOT_HEADER

\* C5: the typed decoders fail with "Invalid header", returning no replay,
\* on every stream of at least 16 bytes whose first 16 bytes differ from
\* the magic sequence, and never report that error when they match.
C5_HeaderCheckTyped ==
    (ty \in {"V1", "V2"} /\ pc # "stream")
    => /\ HeaderDiffers => (pc = "halt" /\ result.err = "Invalid header")
       /\ HeaderMatches => result.err # "Invalid header"

C5_Witness ==
    /\ ty = "V2"
    /\ pc = "halt"
    /\ start_pos = Len(Junk)
    /\ SubSeq(out, start_pos + 1, start_pos + HEADER_SIZE) = Corrupt(HEADER_SIZE)
    /\ result.err = "Invalid header"

\* C6: from_reader fails with "Invalid header" on every stream whose first
\* 16 bytes differ from the magic sequence, whatever the version byte.
C6_HeaderCheckAuto ==
    (/\ ty = "Dyn"
     /\ pc \notin {"stream", "peeked"}
     /\ HeaderDiffers
     /\ start_pos + HEADER_SIZE < Len(out))
    => (pc = "halt" /\ result.err = "Invalid header")

\* the step taken lands where the typed decode r lands
Landed(r) ==
    /\ pc' = r.pc
    /\ pos' = r.pos
    /\ de' = r.de
    /\ meta_read' = r.meta
    /\ result'.err = r.err
    /\ r.pc = "decoded" => replay' = [meta |-> Unwrap(r.meta), inputs |-> r.inputs]

TypedDecode(v, checks) ==
    DeserializeFrom(out, start_pos, IF v = 1 THEN "V1" ELSE "V2", checks)

\* C7: on a stream with a valid header, from_reader runs the V1 decoder and
\* returns a replay of version_instance 1 when the version byte is 1, runs
\* the V2 decoder and returns a replay of version_instance 2 when it is 2,
\* and fails with "Unsupported version: <byte>" for every other byte.
C7_VersionDispatch ==
    /\ [][(pc = "peeked" /\ HeaderMatches)
          => IF version \in {1, 2}
             THEN \E checks \in BOOLEAN : Landed(TypedDecode(version, checks))
             ELSE /\ pc' = "halt"
                  /\ result' = [op |-> "from_reader", err |-> "Unsupported version: ",
                                arg |-> version]]_vars
    /\ []((ty = "Dyn" /\ pc = "decoded") => version_instance(replay.meta) = version)

C7_Witness ==
    /\ ty = "Dyn"
    /\ pc = "decoded"
    /\ version = 2
    /\ HeaderMatches
    /\ replay.inputs # <<>>

\* C8: once from_reader has read the version byte at p + 16 the reader is
\* back at p, and for the version bytes 1 and 2 it goes on as the typed
\* decode of that version started at p.
C8_PeekDoesNotConsume ==
    /\ [](pc = "peeked" => pos = start_pos)
    /\ [][(pc = "peeked" /\ version \in {1, 2})
          => \E checks \in BOOLEAN : Landed(TypedDecode(version, checks))]_vars

C8_Witness ==
    /\ ty = "Dyn"
    /\ start_pos = Len(Junk)
    /\ version = 1
    /\ pc = "decoded"

MetaBlock ==
    SubSeq(out, start_pos + HEADER_SIZE + 1, start_pos + HEADER_SIZE + MetaSize)

\* deserialize is decoding the stream, or was the last call, and has
\* decoded a V2 metadata block from it
MetaV2Read ==
    /\ result.op = "deserialize"
    /\ IsSome(meta_read)
    /\ Unwrap(meta_read).version = 2

\* the u64 whose little-endian bytes are b[from .. from + 7]
LeValue(b, from) ==
    [k \in 1..4 |-> b[from + 2 * k - 2] + 256 * b[from + 2 * k - 1]]

\* C18: the rng_seed() of a decoded V2 metadata block is None exactly when
\* the bytes at offsets 8 to 15 are all zero and Some of their
\* little-endian value otherwise, whatever the OverrideSeed flag; so a
\* value with the seed Some(0) is read back from its own bytes with the
\* seed None, and a value with a nonzero seed with the same seed.
C18_SeedZero ==
    MetaV2Read
    => LET m == Unwrap(meta_read)
       IN  /\ rng_seed(m) = None <=> \A i \in 9..16 : MetaBlock[i] = 0
           /\ rng_seed(m) # None => rng_seed(m) = Some(LeValue(MetaBlock, 9))
           /\ (round = 1 /\ orig.meta.version = 2)
                 => /\ MetaBlock = MetaV2_to_bytes(orig.meta)
                    /\ rng_seed(m) = IF rng_seed(orig.meta) = Some(U64Zero) THEN None
                                     ELSE rng_seed(orig.meta)

\* a value built with the seed 0, read back with no seed and the flag set
C18_Witness ==
    /\ MetaV2Read
    /\ round = 1
    /\ orig.meta = MetaSeedZero
    /\ pc = "decoded"
    /\ rng_seed(replay.meta) = None
    /\ is_rng_seed_set(replay.meta)

\* C19: the V2 metadata built by MetaV2::new, here for the replay to_v2
\* returns, has the TpsInsteadOfDt flag (bit 1) set, so uses_dt() is
\* false; it has the OverrideSeed flag (bit 0) set exactly when it holds a
\* seed, so is_rng_seed_set() = rng_seed().is_some(); and no other bit of
\* the flags is set.
C19_NewFlags ==
    result.op = "to_v2"
    => LET m == replay.meta
       IN  /\ Bit(m.flags, 1)
           /\ ~uses_dt(m)
           /\ Bit(m.flags, 0) <=> IsSome(result.arg) \/ IsSome(rng_seed(chain[1].meta))
           /\ is_rng_seed_set(m) <=> IsSome(rng_seed(m))
           /\ m.flags \div 4 = 0

\* to_v2 with a seed on decoded metadata that stored a dt
C19_Witness ==
    /\ result.op = "to_v2"
    /\ result.arg = Some(Seed1)
    /\ chain[1].meta = MetaOfDt
    /\ uses_dt(chain[1].meta)
    /\ replay.meta.flags = 3

\* a u32 / f32 bit pattern from its little-endian bytes b[from .. from + 3]
LeValue32(b, from) == <<b[from] + 256 * b[from + 1], b[from + 2] + 256 * b[from + 3]>>

\* C20: for a decoded V2 metadata block uses_dt() is the complement of bit
\* 1 of the flags byte at offset 2 and is_rng_seed_set() is bit 0 of it;
\* with bit 1 set tps() is the f32 stored at offset 4, and a block with the
\* flags 0b00000010 and zero seed bytes has uses_dt() false,
\* is_rng_seed_set() false and rng_seed() None.
C20_FlagBits ==
    MetaV2Read
    => LET m == Unwrap(meta_read)
           flags == MetaBlock[3]
       IN  /\ uses_dt(m) <=> ~Bit(flags, 1)
           /\ is_rng_seed_set(m) <=> Bit(flags, 0)
           /\ Bit(flags, 1) => tps(m) = LeValue32(MetaBlock, 5)
           /\ (flags = 2 /\ \A i \in 9..16 : MetaBlock[i] = 0)
                 => /\ ~uses_dt(m)
                    /\ ~is_rng_seed_set(m)
                    /\ rng_seed(m) = None

\* from_reader has returned a replay with the metadata of such a block
C20_Witness ==
    /\ MetaV2Read
    /\ ty = "Dyn"
    /\ pc = "decoded"
    /\ MetaBlock[3] = 2
    /\ \A i \in 9..16 : MetaBlock[i] = 0
    /\ tps(replay.meta) = T240
    /\ rng_seed(replay.meta) = None

\* serialize has returned Ok: `out` holds the bytes written for `replay`
SerializeReturned == pc \in {"written", "rewritten"}

\* the f32 a metadata value stores, as its bit pattern
StoredTps(m) == IF m.version = 1 THEN m.tps ELSE m.tps_or_dt

\* the 1-based positions of a metadata block the layout of version v assigns
Assigned(v) == IF v = 1 THEN {1, 2} \cup 5..8 ELSE {1, 2, 3} \cup 5..16

\* C21: the metadata block serialize writes is exactly 64 bytes (nothing
\* but the input stream follows it) with the version, 1 or 2, at offset 0,
\* append_counter at offset 1, for V2 the flags at offset 2, the stored f32
\* at offsets 4 to 7, for V2 the seed at offsets 8 to 15, and zero in every
\* byte the layout does not assign; and the value decoded from the block has
\* the same append_counter, stored f32 bits, flags and, unless the seed is
\* Some(0), the same seed.
C21_MetaCodec ==
    /\ SerializeReturned
       => LET m == replay.meta
              b == SubSeq(out, HEADER_SIZE + 1, HEADER_SIZE + MetaSize)
          IN  /\ Len(out) >= HEADER_SIZE + MetaSize
              /\ replay.inputs = <<>>
                   => Len(out) = HEADER_SIZE + MetaSize + (IF ty = "V1" THEN 2 ELSE 0)
              /\ m.version \in {1, 2}
              /\ b[1] = m.version
              /\ b[2] = m.append_counter
              /\ m.version = 2 => b[3] = m.flags
              /\ LeValue32(b, 5) = StoredTps(m)
              /\ (m.version = 2 /\ IsSome(m.rng_seed))
                   => LeValue(b, 9) = Unwrap(m.rng_seed)
              /\ \A i \in 1..MetaSize :
                     \/ i \in Assigned(m.version)
                     \/ b[i] = 0
    /\ (result.op = "deserialize" /\ IsSome(meta_read) /\ round = 1)
       => LET m == orig.meta
              d == Unwrap(meta_read)
          IN  /\ MetaBlock = to_bytes(m)
              /\ d.version = m.version
              /\ d.append_counter = m.append_counter
              /\ StoredTps(d) = StoredTps(m)
              /\ m.version = 2
                   => /\ d.flags = m.flags
                      /\ m.rng_seed # Some(U64Zero) => d.rng_seed = m.rng_seed

\* a V1 value with a nonzero append counter has been written and read back
C21_Witness ==
    /\ result.op = "deserialize"
    /\ round = 1
    /\ pc = "decoded"
    /\ orig.meta = MetaV1_new(T120, 7)
    /\ replay.meta = orig.meta
    /\ out[HEADER_SIZE + 2] = 7

(***************************************************************************)
(* Properties of the V1 input stream and of the envelope.                  *)
(***************************************************************************)
\* a Vanilla input, or a Restart without a seed
SeedFree(input) ==
    \/ input.kind = "Vanilla"
    \/ input.kind = "Restart" /\ input.new_seed = None

IsSeeded(input) == input.kind = "Restart" /\ IsSome(input.new_seed)

\* the V1 decoder has returned the replay in hand
V1Decoded ==
    /\ result.op = "deserialize"
    /\ pc = "decoded"
    /\ replay.meta.version = 1

\* every control byte decodes to nothing or to an input without a seed
V1BytesSeedFree ==
    \A b \in 0..255 :
        IsSome(v1_deserialize_input(b)) => SeedFree(Unwrap(v1_deserialize_input(b)))

\* C22: every input the V1 control byte decodes to, and so every input of
\* a replay the V1 decoder returns, is a Vanilla or a Restart with
\* new_seed = None; and a V1 replay of Vanilla and Restart inputs that holds
\* a Restart with a seed is serialized without error and decoded, each
\* Restart coming back with its restart_type and new_seed = None.
C22_V1NoSeed ==
    /\ V1BytesSeedFree
    /\ V1Decoded => \A i \in 1..Len(replay.inputs) : SeedFree(replay.inputs[i].input)
    /\ (/\ ty = "V1"
        /\ round = 1
        /\ \A i \in 1..Len(orig.inputs) : orig.inputs[i].input.kind \in {"Vanilla", "Restart"}
        /\ \E i \in 1..Len(orig.inputs) : IsSeeded(orig.inputs[i].input))
       => /\ pc \in {"written", "decoded"}
          /\ result.err = ""
          /\ pc = "decoded"
               => /\ Len(replay.inputs) = Len(orig.inputs)
                  /\ \A i \in 1..Len(orig.inputs) :
                         orig.inputs[i].input.kind = "Restart"
                         => replay.inputs[i].input =
                              Restart(orig.inputs[i].input.restart_type, None)

\* a V1 replay with a seeded Restart has come back with the seed gone
C22_Witness ==
    /\ V1Decoded
    /\ ty = "V1"
    /\ round = 1
    /\ Len(orig.inputs) = 2
    /\ orig.inputs[1].input = Restart(RestartFull, Some(Seed1))
    /\ replay.inputs[1].input = Restart(RestartFull, None)
    /\ replay.inputs[2] = orig.inputs[2]

\* the control byte of the V1 layout for an input
V1ControlByte(input) ==
    IF input.kind = "Vanilla"
    THEN (input.button - 1) + 128 * BoolU8(input.push) + 64 * BoolU8(input.player2)
    ELSE 3 + input.restart_type

\* buf holds at p the records of inputs[i..], one varint frame and one
\* control byte each, then the byte 0xCC, and ends there
RECURSIVE V1RecordsAt(_, _, _, _)
V1RecordsAt(buf, p, inputs, i) ==
    IF i > Len(inputs) THEN Len(buf) = p + 1 /\ buf[p + 1] = 204
    ELSE LET f == read_var_u32(buf, p, FALSE)
         IN  /\ f.tag = "Ok"
             /\ f.value = AsU32(inputs[i].frame)
             /\ f.pos < Len(buf)
             /\ buf[f.pos + 1] = V1ControlByte(inputs[i].input)
             /\ V1RecordsAt(buf, f.pos + 1, inputs, i + 1)

\* buf holds at p the varint of the number of inputs and then the records
V1StreamAt(buf, p, inputs) ==
    LET c == read_var_u32(buf, p, FALSE)
    IN  /\ c.tag = "Ok"
        /\ c.value = U32(0, Len(inputs))
        /\ V1RecordsAt(buf, c.pos, inputs, 1)

\* C23: when serialize returns Ok the writer holds the 16 magic bytes, then
\* the 64-byte metadata block of the replay, whose first byte is the
\* replay's version, then the input stream of that version: for V1 the
\* varint of the number of inputs, one (varint frame, control byte) record
\* per input in input order, and the final byte 0xCC; for V2 nothing for an
\* empty replay and else a stream that starts with the varint of the first
\* frame.
C23_Envelope ==
    SerializeReturned
    => /\ Len(out) >= HEADER_SIZE + MetaSize
       /\ SubSeq(out, 1, HEADER_SIZE) = TCBOT_HEADER
       /\ SubSeq(out, HEADER_SIZE + 1, HEADER_SIZE + MetaSize) = to_bytes(replay.meta)
       /\ out[HEADER_SIZE + 1] = M_version(ty)
       /\ M_version(ty) \in {1, 2}
       /\ ty = "V1" => V1StreamAt(out, HEADER_SIZE + MetaSize, replay.inputs)
       /\ (ty = "V2" /\ replay.inputs = <<>>) => Len(out) = HEADER_SIZE + MetaSize
       /\ (ty = "V2" /\ replay.inputs # <<>>)
            => LET f == read_var_u32(out, HEADER_SIZE + MetaSize, FALSE)
               IN  /\ f.tag = "Ok"
                   /\ f.value = AsU32(replay.inputs[1].frame)
                   /\ f.pos < Len(out)

\* a V1 replay of three inputs has been written
C23_Witness ==
    /\ SerializeReturned
    /\ ty = "V1"
    /\ round = 1
    /\ Len(replay.inputs) = 3
    /\ replay.inputs[2].input.kind = "Restart"
    /\ replay.inputs[3].frame = U64(66000)
    /\ out[Len(out)] = 204

(***************************************************************************)
(* Properties of the V2 decoder at the end of the stream.                  *)
(***************************************************************************)
\* the decoder is about to read a delta blob of 1, 2 or 4 bytes and fewer
\* bytes than that are left
DeltaCutShort ==
    /\ pc = "dec"
    /\ de.next_blob = "FrameDelta"
    /\ ~DeserializerDeltaInfo_empty(de.next_delta)
    /\ pos + ByteBlob_width(de.next_delta.blob) > Len(out)

\* C24: a V2 stream that ends inside a frame-delta blob makes the decoder
\* fail with an error, and the decoder returns Ok only from the Action
\* state, at the end of the stream.
C24_DeltaTruncation ==
    [][ /\ DeltaCutShort => (pc' = "halt" /\ result'.err # "")
        /\ (pc = "dec" /\ pc' = "decoded")
             => (de.next_blob = "Action" /\ pos = Len(out)) ]_vars

\* deserialize for V2 is about to read the start-frame varint and the
\* stream ends before the varint does
StartCutShort ==
    /\ \/ pc = "stream" /\ ty = "V2"
       \/ pc = "peeked" /\ match_version(version) = "V2"
    /\ deserialize_envelope(out, pos, "V2").err = ""
    /\ read_var_u32(out, pos + HEADER_SIZE + MetaSize, FALSE).tag = "Eof"

\* the decoder is about to read a Tps blob and fewer than 4 bytes are left
TpsCutShort == pc = "dec" /\ de.next_blob = "Tps" /\ pos + 4 > Len(out)

\* the decoder is about to read the seed of a Restart and fewer than 8
\* bytes are left
SeedCutShort ==
    /\ pc = "dec"
    /\ de.next_blob = "Seed"
    /\ IsSome(de.awaiting_seed)
    /\ pos + 8 > Len(out)

\* C25: a V2 stream that ends inside the start-frame varint, inside the
\* 4-byte Tps blob or inside the 8-byte seed blob makes the decoder fail
\* with an error; no replay is returned, whatever inputs were decoded so far.
C25_BlobTruncation ==
    [][ (StartCutShort \/ TpsCutShort \/ SeedCutShort)
        => /\ pc' = "halt"
           /\ result'.op = "deserialize"
           /\ result'.err = "UnexpectedEof"
           /\ replay' = replay ]_vars

\* the stream ended inside a Tps blob after an input had been decoded
C25_Witness ==
    /\ pc = "halt"
    /\ result = Failed("deserialize", "UnexpectedEof")
    /\ de.next_blob = "Tps"
    /\ de.inputs # <<>>
    /\ pos - (start_pos + HEADER_SIZE + MetaSize) >= 3
    /\ replay.inputs = <<>>

\* the decoder is in the Seed state after a restart action byte with
\* extra = 1, and the 8 bytes of the seed are there
SeedStep ==
    /\ pc = "dec"
    /\ de.next_blob = "Seed"
    /\ IsSome(de.awaiting_seed)
    /\ pos + 8 <= Len(out)

\* C26: in the Seed state the decoder reads the 8-byte seed, records
\* Restart{restart_type, new_seed: Some(seed)} at the frame the action byte
\* was read at, and goes to the FrameDelta step with the delta-control bits
\* of that action byte; no stream ends in "Unexpected seed input" after a
\* seed was read.
C26_SeedFollowUp ==
    /\ [][ SeedStep
           => /\ de'.inputs =
                    Append(de.inputs,
                           InputCommand(Unwrap(de.awaiting_seed)[2],
                               Restart(Unwrap(de.awaiting_seed)[1],
                                       Some(LeValue(out, pos + 1)))))
              /\ pos' = pos + 8
              /\ de'.next_delta = de.next_delta
              /\ de'.next_blob = "FrameDelta" ]_vars
    /\ [](result.err # "Unexpected seed input")

(***************************************************************************)
(* Properties of the V2 encoder's follow-up blobs and deltas.              *)
(***************************************************************************)
\* the encoder has written the action byte of a Tps input or of a Restart
\* with a seed, and owes its blob
BlobPending == pc = "enc" /\ en.next_blob.tag \in {"Tps", "Seed"}

\* C27: after the action byte of a Tps input the V2 encoder writes the 4
\* bytes of its value, and after the action byte of a Restart with a seed
\* the 8 bytes of the seed, as the next thing it writes, before any delta
\* blob and before it returns, wherever the input is in the list.
C27_FollowUpBlobs ==
    [][ BlobPending => out' = out \o ToLeBytes(en.next_blob.v) ]_vars

\* the largest value w bytes hold
MaxOfWidth(w) == FrameOfBytes([i \in 1..w |-> 255])

\* the widths in the order they are tried, by selector
WidthOf(k) == CASE k = 0 -> 0 [] k = 1 -> 1 [] k = 2 -> 2 [] k = 3 -> 4

\* the delta d fits the width of selector k as it is
FitsDirect(d, k) == U64Le(d, MaxOfWidth(WidthOf(k)))

\* d fits the width of selector k as the difference from the nonzero last
\* delta l
FitsRelative(d, l, k) ==
    /\ l # U64Zero
    /\ U64Le(l, d)
    /\ U64Le(U64Sub(d, l), MaxOfWidth(WidthOf(k)))

Encodable(d, l) == \E k \in 0..3 : FitsDirect(d, k) \/ FitsRelative(d, l, k)

\* the greedy width rule for the delta d, the last delta l and the value nd
\* the constructor returned
Greedy(d, l, nd) ==
    /\ nd.delta = d
    /\ FitsDirect(d, nd.blob) \/ FitsRelative(d, l, nd.blob)
    /\ \A k \in 0..3 : k < nd.blob => ~(FitsDirect(d, k) \/ FitsRelative(d, l, k))
    /\ IsSome(nd.magic) <=> ~FitsDirect(d, nd.blob)
    /\ IsSome(nd.magic) => nd.magic = Some(l)
    /\ d = U64Zero => (nd.blob = 0 /\ ~IsSome(nd.magic))
    /\ (d = l /\ l # U64Zero) => (nd.blob = 0 /\ IsSome(nd.magic))
    /\ (l = U64Zero \/ ~U64Le(l, d)) => ~IsSome(nd.magic)

\* the number of inputs taken once the Action arm has run: one more, or
\* two more for a swift pair
TakenByStep ==
    IF IsSwift(replay.inputs[en.idx + 1], Peek(replay.inputs, en.idx + 1))
    THEN en.idx + 2
    ELSE en.idx + 1

\* the Action arm runs on an input that has a following input (after the
\* twin of a swift pair is skipped)
DeltaStep ==
    /\ pc = "enc"
    /\ en.next_blob.tag = "Action"
    /\ en.idx < Len(replay.inputs)
    /\ TakenByStep < Len(replay.inputs)

\* the delta of that step: from the adjusted frame of the input to the
\* frame of the following one
DeltaOfStep ==
    SaturatingSub(replay.inputs[TakenByStep + 1].frame,
                  adjusted_frame(replay.inputs[en.idx + 1]))

\* C28: for a delta d and a last delta l that have an encoding,
\* SerializerDeltaInfo::new takes the first width in the order 0, 1, 2, 4
\* bytes at which d fits, or at which l is nonzero, l <= d and d - l fits;
\* magic is clear when d itself fits that width and set otherwise; so d = 0
\* has width 0 without magic, d = l # 0 has width 0 with magic, and magic is
\* never set when l = 0 or l > d. Without an encoding the constructor panics.
C28_GreedyWidth ==
    [][ DeltaStep
        => IF Encodable(DeltaOfStep, en.last_delta)
           THEN /\ pc' = "enc"
                /\ Greedy(DeltaOfStep, en.last_delta, en'.next_delta)
           ELSE pc' = "halt" /\ result'.err = "panic: Delta too big" ]_vars

\* the encoder has chosen two bytes with magic for 66000 after 500
C28_Witness ==
    /\ pc = "enc"
    /\ en.next_delta.delta = U64(66000)
    /\ en.next_delta.magic = Some(U64(500))
    /\ en.next_delta.blob = BlobTwo
    /\ en.last_delta = U64(66000)

\* the bytes SerializerDeltaInfo::serialize writes for nd: none for width 0
DeltaBytes(nd) ==
    IF SerializerDeltaInfo_empty(nd) THEN <<>>
    ELSE SerializerDeltaInfo_serialize(nd).bytes

\* what the decoder resolves from the delta-control bits of the action
\* byte `byte`, the blob bytes and the last delta l
Resolved(byte, bytes, l) ==
    DeserializerDeltaInfo_read(
        DeserializerDeltaInfo_new(Shr8(BitAnd(byte, DELTA_DATA_MASK), DELTA_OFFSET), l),
        bytes, 0, l)

\* C29: for a delta d and a last delta l the encoder can encode, the
\* decoder, given l, the delta-control bits of the action byte written and
\* the bytes SerializerDeltaInfo::serialize writes (none for width 0),
\* resolves d: the stored value with magic clear, the stored value + l with
\* magic set, l for width 0 with magic and 0 for width 0 without.
C29_DeltaRoundTrip ==
    [][ (DeltaStep /\ pc' = "enc")
        => LET d == DeltaOfStep
               l == en.last_delta
               byte == out'[Len(out')]
               bytes == DeltaBytes(en'.next_delta)
               magic == Bit(byte, DELTA_OFFSET)
               width == WidthOf((byte \div 64) % 4)
               r == Resolved(byte, bytes, l)
           IN  /\ Len(out') = Len(out) + 1
               /\ Len(bytes) = width
               /\ r.err = ""
               /\ r.pos = width
               /\ r.result = d
               /\ (~magic /\ width > 0) => d = FrameOfBytes(bytes)
               /\ (magic /\ width > 0) => d = U64Add(FrameOfBytes(bytes), l)
               /\ (magic /\ width = 0) => d = l
               /\ (~magic /\ width = 0) => d = U64Zero ]_vars

\* the action byte for the delta 300 after the delta 200 is out: one byte,
\* the difference from the last delta
C29_Witness ==
    /\ pc = "enc"
    /\ en.next_blob.tag = "FrameDelta"
    /\ en.next_delta.delta = U64(300)
    /\ en.next_delta.magic = Some(U64(200))
    /\ Bit(out[Len(out)], DELTA_OFFSET)
    /\ (out[Len(out)] \div 64) % 4 = 1
    /\ DeltaBytes(en.next_delta) = <<100>>

\* the locals of the V2 encoder once it has taken n of the inputs, from the
\* locals e
RECURSIVE EncoderAfter(_, _, _)
EncoderAfter(inputs, e, n) ==
    IF e.idx >= n \/ EncodeAction(inputs, e).err # "" THEN e
    ELSE EncoderAfter(inputs, EncodeAction(inputs, e).e, n)

\* deserialize is decoding, or has decoded, the stream the first serialize
\* of the V2 replay `orig` wrote
DecodingOwnOutput ==
    /\ round = 1
    /\ result.op = "deserialize"
    /\ IsSome(meta_read)
    /\ Unwrap(meta_read).version = 2
    /\ orig.inputs # <<>>

\* the decoder is through an action with its blobs and its delta
ActionDone == pc = "dec" /\ de.next_blob = "Action" /\ de.inputs # <<>>

\* the encoder's last_delta changes in the Action arm only, to the nonzero
\* delta of that action
EncLastDeltaLaw ==
    (pc = "enc" /\ en'.last_delta # en.last_delta)
    => /\ en.next_blob.tag = "Action"
       /\ en'.next_delta.delta # U64Zero
       /\ en'.last_delta = en'.next_delta.delta

\* the decoder's last_delta changes in the FrameDelta arm only, to the
\* nonzero delta it resolved
DecLastDeltaLaw ==
    (pc = "dec" /\ de'.last_delta # de.last_delta)
    => /\ de.next_blob = "FrameDelta"
       /\ de'.last_delta # U64Zero
       /\ de'.current_frame = U64Add(de.current_frame, de'.last_delta)

\* C30: decoding the stream the V2 encoder wrote for a replay, the decoder's
\* last_delta after each action it is through equals the encoder's
\* last_delta after the same action, and when the decoder returns the
\* encoder's final one; on both sides last_delta starts at 0 and changes
\* only to a nonzero resolved delta, never at a Restart, a Tps or a Seed
\* blob.
C30_LastDeltaInStep ==
    /\ []((pc = "enc" /\ en.idx = 0) => en.last_delta = U64Zero)
    /\ []((DecodingOwnOutput /\ de.inputs = <<>>) => de.last_delta = U64Zero)
    /\ []((DecodingOwnOutput /\ ActionDone)
            => de.last_delta =
                 EncoderAfter(orig.inputs, EncoderInit, Len(de.inputs)).last_delta)
    /\ []((DecodingOwnOutput /\ pc = "decoded") => de.last_delta = en.last_delta)
    /\ [][EncLastDeltaLaw]_vars
    /\ [][DecLastDeltaLaw]_vars

\* the decoder is through a Vanilla input at 200 and a Restart at 500 that
\* is followed by an input at frame 0: the last delta is still the 300
\* resolved before the Restart
C30_Witness ==
    /\ DecodingOwnOutput
    /\ ActionDone
    /\ Len(orig.inputs) = 3
    /\ Len(de.inputs) = 2
    /\ de.inputs[1].input.kind = "Vanilla"
    /\ de.inputs[2].input.kind = "Restart"
    /\ de.last_delta = U64(300)
    /\ de.current_frame = U64Zero
    /\ en.last_delta = U64(300)

\* the encoder is in the FrameDelta arm, about to write the delta blob
DeltaBlobStep == pc = "enc" /\ en.next_blob.tag = "FrameDelta"

\* C31: when the delta to the next input exceeds four bytes and the
\* difference from the last delta does not apply or exceeds four bytes too,
\* the V2 encoder stops with "Delta too big" without writing anything more,
\* and serialize does not return; and every delta blob the encoder writes
\* holds the whole delta, or the whole difference from the last delta.
C31_DeltaOverflow ==
    /\ [][ (DeltaStep /\ ~Encodable(DeltaOfStep, en.last_delta))
           => /\ pc' = "halt"
              /\ result' = Failed("serialize", "panic: Delta too big")
              /\ out' = out ]_vars
    /\ [][ DeltaBlobStep
           => LET nd == en.next_delta
                  written == SubSeq(out', Len(out) + 1, Len(out'))
              IN  /\ pc' = "enc"
                  /\ Len(written) = WidthOf(nd.blob)
                  /\ FrameOfBytes(written) =
                        IF IsSome(nd.magic) THEN U64Sub(nd.delta, Unwrap(nd.magic))
                        ELSE nd.delta
                  /\ IsSome(nd.magic) => U64Le(Unwrap(nd.magic), nd.delta) ]_vars

\* the encoder stopped at a delta of 2^32 + 200 after the last delta 200
C31_Witness ==
    /\ pc = "halt"
    /\ result = Failed("serialize", "panic: Delta too big")
    /\ en.idx = 1
    /\ en.last_delta = U64(200)
    /\ replay.inputs[2].input.kind = "Restart"
    /\ replay.inputs[3].frame = FrameWide

(***************************************************************************)
(* Properties of the V2 decoder's steps.                                   *)
(***************************************************************************)
\* the decoder reads a whole Tps blob
TpsBlobStep == pc = "dec" /\ de.next_blob = "Tps" /\ pos + 4 <= Len(out)

\* the decoder is in the FrameDelta arm
FrameDeltaStep == pc = "dec" /\ de.next_blob = "FrameDelta"

\* the most recent action byte, seen from the FrameDelta arm: the byte
\* before the reader, or the one before the 4-byte blob of a Tps input
LastActionByte ==
    IF de.inputs # <<>> /\ de.inputs[Len(de.inputs)].input.kind = "Tps"
    THEN out[pos - 4]
    ELSE out[pos]

\* C32: the width and the magic the V2 decoder uses in the FrameDelta step
\* are bits 6-7 and bit 5 of the most recent action byte, also when a Tps
\* blob was read in between; the Tps step records the Tps input at the
\* running frame and leaves the running frame and the captured delta bits as
\* they are.
C32_DeltaBitsOnce ==
    /\ [][ TpsBlobStep
           => /\ de'.inputs =
                    Append(de.inputs,
                           InputCommand(de.current_frame,
                                        Tps(LeValue32(out, pos + 1))))
              /\ de'.current_frame = de.current_frame
              /\ de'.last_delta = de.last_delta
              /\ de'.next_delta = de.next_delta
              /\ de'.next_blob = "FrameDelta" ]_vars
    /\ [][ (FrameDeltaStep /\ pc' = "dec")
           => LET byte == LastActionByte
                  width == WidthOf((byte \div 64) % 4)
                  magic == Bit(byte, DELTA_OFFSET)
                  stored == FrameOfBytes(SubSeq(out, pos + 1, pos + width))
              IN  /\ pos' = pos + width
                  /\ de'.inputs = de.inputs
                  /\ de'.current_frame =
                        U64Add(de.current_frame,
                               IF magic THEN U64Add(de.last_delta, stored) ELSE stored) ]_vars

\* a Tps input at frame 200 was decoded and the two-byte delta of its
\* action byte then took the running frame to 500
C32_Witness ==
    /\ pc = "dec"
    /\ de.next_blob = "Action"
    /\ de.inputs # <<>>
    /\ de.inputs[Len(de.inputs)] = InputCommand(U64(200), Tps(T120))
    /\ de.next_delta.blob = BlobTwo
    /\ de.current_frame = U64(500)
    /\ Bit(out[pos - 6], 7)

(***************************************************************************)
(* Properties of the V1 decoder.                                           *)
(***************************************************************************)
\* the input the V1 layout gives the control byte b: bits 0-2 the code,
\* bit 6 player2, bit 7 push
V1InputOf(b) ==
    IF b % 8 < 3
    THEN Vanilla(CASE b % 8 = 0 -> Jump [] b % 8 = 1 -> Left [] b % 8 = 2 -> Right,
                 b \div 128 = 1, (b \div 64) % 2 = 1)
    ELSE Restart(CASE b % 8 = 3 -> RestartKind
                   [] b % 8 = 4 -> RestartFull
                   [] b % 8 = 5 -> Death,
                 None)

\* v1::deserialize_input follows the layout on each of the 256 bytes
V1ByteTable ==
    \A b \in 0..255 :
        IF b % 8 \in {6, 7} THEN v1_deserialize_input(b) = None
        ELSE v1_deserialize_input(b) = Some(V1InputOf(b))

\* deserialize_input(serialize_input(i)) = i for the Vanilla inputs and the
\* Restarts without a seed
V1ByteRoundTrip ==
    \A i \in { Vanilla(b, p, q) : b \in {Jump, Left, Right}, p \in BOOLEAN, q \in BOOLEAN }
             \cup { Restart(t, None) : t \in {RestartKind, RestartFull, Death} } :
        /\ IsSome(v1_serialize_input(i))
        /\ v1_deserialize_input(Unwrap(v1_serialize_input(i))) = Some(i)

\* the V1 decoder was given a stream of one record and is through it
OneRecordRead ==
    /\ result.op = "deserialize"
    /\ IsSome(meta_read)
    /\ Unwrap(meta_read).version = 1
    /\ Len(out) >= start_pos + HEADER_SIZE + MetaSize + 3
    /\ SubSeq(out, start_pos + HEADER_SIZE + MetaSize + 1,
              start_pos + HEADER_SIZE + MetaSize + 2) = <<1, 5>>

\* the control byte of that record
OneRecordByte == out[start_pos + HEADER_SIZE + MetaSize + 3]

\* C33: the V1 decoder maps the codes 0, 1, 2 in bits 0-2 of the control
\* byte to the Vanilla buttons Jump, Left, Right with push = bit 7 and
\* player2 = bit 6, the codes 3, 4, 5 to Restart, RestartFull, Death without
\* a seed, and fails with "Invalid input byte in v1 replay" for the codes 6
\* and 7; and deserialize_input(serialize_input(i)) = i for every Vanilla
\* input and every Restart without a seed.
C33_V1ControlByte ==
    /\ V1ByteTable
    /\ V1ByteRoundTrip
    /\ OneRecordRead
       => IF OneRecordByte % 8 \in {6, 7}
          THEN /\ pc = "halt"
               /\ result.err = "Invalid input byte in v1 replay"
          ELSE /\ pc = "decoded"
               /\ result.err = ""
               /\ replay.inputs = <<InputCommand(U64(5), V1InputOf(OneRecordByte))>>

\* the record with the control byte 0xC2 was decoded: a push of Right by
\* player 2
C33_Witness ==
    /\ OneRecordRead
    /\ OneRecordByte = 194
    /\ pc = "decoded"
    /\ replay.inputs = <<InputCommand(U64(5), Vanilla(Right, TRUE, TRUE))>>

\* the decoder reads an action byte
ActionByteStep == pc = "dec" /\ de.next_blob = "Action" /\ pos < Len(out)

\* the inputs the action byte b adds at the frame f, by the layout: code in
\* bits 0-1, for a Vanilla push in bit 2, player2 in bit 3, swift in bit 4;
\* for code 0 the custom type in bits 2-3 and extra in bit 4
ActionInputs(b, f) ==
    LET code == b % 4
        custom == (b \div 4) % 4
    IN  CASE code # 0 /\ ~Bit(b, 4) ->
                <<InputCommand(f, Vanilla(code, Bit(b, 2), Bit(b, 3)))>>
          [] code # 0 /\ Bit(b, 4) ->
                <<InputCommand(f, Vanilla(code, Bit(b, 2), Bit(b, 3))),
                  InputCommand(f, Vanilla(code, ~Bit(b, 2), Bit(b, 3)))>>
          [] code = 0 /\ custom = 3 /\ Bit(b, 4) -> <<InputCommand(f, Bugpoint)>>
          [] code = 0 /\ custom # 3 /\ ~Bit(b, 4) ->
                <<InputCommand(f, Restart(custom, None))>>
          [] OTHER -> <<>>

\* the state the action byte b sends the decoder to
ActionNext(b) ==
    CASE b % 4 # 0 -> "FrameDelta"
      [] b % 4 = 0 /\ (b \div 4) % 4 = 3 /\ ~Bit(b, 4) -> "Tps"
      [] b % 4 = 0 /\ (b \div 4) % 4 # 3 /\ Bit(b, 4) -> "Seed"
      [] OTHER -> "FrameDelta"

\* C34: for each of the 256 values of a byte read in the Action state the
\* V2 decoder goes on, as exactly one of: a Vanilla input (code 1-3), a
\* Restart (code 0, custom type 0-2), a Tps (custom type 3, extra 0) or a
\* Bugpoint (custom type 3, extra 1); the button, the restart type and the
\* width selector are always converted, so no action byte is rejected.
C34_ActionTotal ==
    [][ ActionByteStep
        => LET b == out[pos + 1]
           IN  /\ pc' = "dec"
               /\ result' = result
               /\ pos' = pos + 1
               /\ de'.inputs = de.inputs \o ActionInputs(b, de.current_frame)
               /\ de'.next_blob = ActionNext(b)
               /\ de'.next_delta.blob = (b \div 64) % 4
               /\ IsSome(de'.next_delta.last_delta) <=> Bit(b, 5)
               /\ de'.awaiting_seed =
                     IF ActionNext(b) = "Seed"
                     THEN Some(<<(b \div 4) % 4, de.current_frame>>)
                     ELSE de.awaiting_seed
               /\ de'.current_frame =
                     IF b % 4 = 0 /\ (b \div 4) % 4 # 3 THEN U64Zero
                     ELSE de.current_frame ]_vars

\* the action byte 0xDC was read: a Bugpoint at frame 5 with a four-byte
\* delta to come
C34_Witness ==
    /\ pc = "dec"
    /\ pos > 0
    /\ out[pos] = 220
    /\ de.next_blob = "FrameDelta"
    /\ de.inputs = <<InputCommand(U64(5), Bugpoint)>>
    /\ de.next_delta.blob = BlobFour

\* the three failures of the V2 encoder that its own state rules out
EncoderAssertions ==
    {"panic: Non-vanilla inputs cannot be swift",
     "panic: assertion failed: value <= self.max()",
     "Cannot serialize empty delta"}

\* the encoder is about to write the delta blob
DeltaBlobPending == pc = "enc" /\ en.next_blob.tag = "FrameDelta"

\* C35: the V2 encoder never fails with "Non-vanilla inputs cannot be
\* swift", with the assertion value <= self.max() of ByteBlob::serialize or
\* with "Cannot serialize empty delta": swift is passed only for a Vanilla
\* input, and the FrameDelta state is entered only with a delta of nonzero
\* width whose value fits that width.
C35_EncoderAssertions ==
    /\ [](result.err \notin EncoderAssertions)
    /\ [](DeltaBlobPending
          => /\ ~SerializerDeltaInfo_empty(en.next_delta)
             /\ SerializerDeltaInfo_serialize(en.next_delta).err = "")
    /\ [][ (pc = "enc" /\ en.next_blob.tag = "Action"
            /\ IsSome(Peek(replay.inputs, en.idx))
            /\ IsSwift(replay.inputs[en.idx + 1], Peek(replay.inputs, en.idx + 1)))
           => /\ replay.inputs[en.idx + 1].input.kind = "Vanilla"
              /\ result'.err # "panic: Non-vanilla inputs cannot be swift" ]_vars

\* a list with a swift pair and then a later input was written: the encoder
\* passed swift, and a delta blob, without failing
C35_Witness ==
    /\ pc = "written"
    /\ result = Ok("serialize")
    /\ Len(replay.inputs) = 3
    /\ IsSwift(replay.inputs[1], Some(replay.inputs[2]))
    /\ replay.inputs[3].frame = U64(500)
    /\ replay.inputs[1].frame = U64(200)

\* the V2 decoder loop is running, in the state b
DecIn(b) == pc = "dec" /\ de.next_blob = b

\* the V2 encoder loop is running, in the state b
EncIn(b) == pc = "enc" /\ en.next_blob.tag = b

\* a loop has returned, with a value or an error
DecStopped == pc \in {"decoded", "halt"}
EncStopped == pc \in {"written", "rewritten", "halt"}

\* C36: both V2 loops stop.  The decoder in the Action state consumes one
\* byte or ends the loop, and between two action bytes it takes at most two
\* other steps (Tps then FrameDelta, or Seed then the step that ends the
\* loop); the reader never moves back nor past the end, so a finite stream
\* is decoded to a replay or an error.  The encoder takes one or two inputs
\* in the Action state and then at most two other steps (Tps or Seed, then
\* FrameDelta) before the next Action step, so a finite list is written or
\* the encoder fails.
C36_Termination ==
    /\ (pc = "dec") ~> DecStopped
    /\ (pc = "enc") ~> EncStopped
    /\ [](pc = "dec" => pos <= Len(out))
    /\ [](pc = "enc" => en.idx <= Len(replay.inputs))
    /\ [][ /\ DecIn("Action") => (pos' = pos + 1 \/ pc' # "dec")
           /\ DecIn("FrameDelta")
              => (pc' # "dec" \/ (de'.next_blob = "Action" /\ pos' >= pos))
           /\ DecIn("Tps")
              => (pc' # "dec" \/ (de'.next_blob = "FrameDelta" /\ pos' = pos + 4))
           /\ (DecIn("Seed") /\ IsSome(de.awaiting_seed))
              => (pc' # "dec" \/ (~IsSome(de'.awaiting_seed) /\ pos' = pos + 8))
           /\ (DecIn("Seed") /\ ~IsSome(de.awaiting_seed)) => pc' # "dec" ]_vars
    /\ [][ /\ EncIn("Action")
              => (pc' # "enc" \/ en'.idx \in {en.idx + 1, en.idx + 2})
           /\ (EncIn("Tps") \/ EncIn("Seed"))
              => (pc' # "enc"
                  \/ (en'.idx = en.idx
                      /\ en'.next_blob.tag \in {"FrameDelta", "Action"}))
           /\ EncIn("FrameDelta")
              => (pc' # "enc"
                  \/ (en'.idx = en.idx /\ en'.next_blob.tag = "Action")) ]_vars

\* a list of a Tps and a later input was written, in five encoder steps,
\* and the stream was decoded to its end
C36_Witness ==
    /\ pc = "decoded"
    /\ result = Ok("deserialize")
    /\ Len(replay.inputs) = 2
    /\ replay.inputs[1].input.kind = "Tps"
    /\ replay.inputs[2].frame = U64(500)
    /\ pos = Len(out)
    /\ en.idx = 2

\* the frame f modulo 2^32, as a frame
Low32(f) == <<f[1], f[2], 0, 0>>

\* serialize is called on a V2 replay that has inputs
SerializeV2Step ==
    /\ pc \in {"new", "decoded", "converted"}
    /\ pc' = "enc"

\* a typed decode, or the one from_reader dispatches to, is called on the
\* bytes written for the replay in hand
DecodeWrittenStep(v) ==
    /\ pc \in {"written", "peeked"}
    /\ round = 1
    /\ result'.op = "deserialize"
    /\ replay.meta.version = v

\* C37: the V2 encoder writes the first input's frame, and the V1 encoder
\* every frame, modulo 2^32: the varint at the start of a V2 input stream
\* reads back as the low 32 bits of the first frame, the V2 decoder starts
\* at that frame without an error, and a V1 replay decodes without an error
\* to the same number of inputs, each at its frame modulo 2^32 (so a frame
\* below 2^32 comes back unchanged).
C37_FrameTruncation ==
    /\ [][ SerializeV2Step
           => LET v == read_var_u32(out', HEADER_SIZE + MetaSize, TRUE)
                  f == replay.inputs[1].frame
              IN  /\ v.tag = "Ok"
                  /\ v.value = <<f[1], f[2]>>
                  /\ v.pos = Len(out') ]_vars
    /\ [][ (DecodeWrittenStep(2) /\ replay.inputs # <<>>)
           => /\ pc' = "dec"
              /\ de'.current_frame = Low32(replay.inputs[1].frame) ]_vars
    /\ [](pc = "dec" /\ de.inputs # <<>>
          => de.inputs[1].frame = Low32(replay.inputs[1].frame))
    /\ [][ DecodeWrittenStep(1)
           => /\ pc' = "decoded"
              /\ result'.err = ""
              /\ Len(replay'.inputs) = Len(replay.inputs)
              /\ \A i \in 1..Len(replay.inputs) :
                    /\ replay'.inputs[i].frame = Low32(replay.inputs[i].frame)
                    /\ (replay.inputs[i].frame[3] = 0 /\ replay.inputs[i].frame[4] = 0)
                       => replay'.inputs[i].frame = replay.inputs[i].frame ]_vars

\* a V1 replay with an input at frame 2^32 + 200 was written and decoded:
\* the input came back at frame 200
C37_Witness ==
    /\ pc = "decoded"
    /\ result = Ok("deserialize")
    /\ replay.meta.version = 1
    /\ Len(orig.inputs) = 2
    /\ orig.inputs[2].frame = FrameWide
    /\ replay.inputs[2].frame = U64(200)
    /\ orig.inputs[1].frame = U64(66000)
    /\ replay.inputs[1].frame = U64(66000)

\* the position after the varint that starts at p: after its first byte
\* with bit 7 clear
RECURSIVE VarintEnd(_, _)
VarintEnd(buf, p) ==
    IF p >= Len(buf) THEN Len(buf)
    ELSE IF buf[p + 1] < 128 THEN p + 1
    ELSE VarintEnd(buf, p + 1)

\* the position after n records (a varint and a control byte each) from p
RECURSIVE RecordsEnd(_, _, _)
RecordsEnd(buf, p, n) ==
    IF n = 0 THEN p ELSE RecordsEnd(buf, VarintEnd(buf, p) + 1, n - 1)

\* where the V1 input stream of the decode in hand starts
V1InputsAt == start_pos + HEADER_SIZE + MetaSize

\* C38: the V1 decoder reads as many records as the count varint announces
\* and stops there: a decode that returns a replay has that many inputs and
\* leaves the reader just after the last record, whatever follows it; a
\* stream of one valid record decodes whether the next byte is 0xCC,
\* another value or missing, with the reader after the record.
C38_NoTerminatorRead ==
    /\ V1Decoded
       => /\ read_var_u32(out, V1InputsAt, FALSE).value = U32(0, Len(replay.inputs))
          /\ pos = RecordsEnd(out, VarintEnd(out, V1InputsAt), Len(replay.inputs))
          /\ pos <= Len(out)
    /\ (OneRecordRead /\ OneRecordByte % 8 \notin {6, 7})
       => /\ pc = "decoded"
          /\ pos = V1InputsAt + 3
          /\ Len(replay.inputs) = 1
          /\ Len(out) - pos \in {0, 1}

\* a stream of one Restart record followed by the byte 7 was decoded, and
\* the reader is in front of that byte
C38_Witness ==
    /\ V1Decoded
    /\ OneRecordRead
    /\ OneRecordByte = 3
    /\ pos = Len(out) - 1
    /\ out[Len(out)] = 7
    /\ replay.inputs = <<InputCommand(U64(5), Restart(RestartKind, None))>>

\* Replay::<M>::deserialize is called for a concrete M on a stream that has
\* the header and a whole metadata block
TypedDecodeStep ==
    /\ pc = "stream"
    /\ ty \in {"V1", "V2"}
    /\ pos + HEADER_SIZE + MetaSize <= Len(out)
    /\ SubSeq(out, pos + 1, pos + HEADER_SIZE) = TCBOT_HEADER

\* the version byte of the metadata block of the decode in hand
VersionByteAt(p) == out[p + HEADER_SIZE + 1]

\* C39: Replay::<MetaV1>::deserialize on a stream whose metadata version
\* byte is not 1, and Replay::<MetaV2>::deserialize on one whose byte is not
\* 2, never return Ok: the assertion of from_bytes fails with the reader
\* just after the metadata block, before any byte of the input stream is
\* read, and no replay is returned; so a typed decode that goes on, or
\* returns a replay, has read the version byte of its own type.
C39_TypedVersion ==
    /\ [][ (TypedDecodeStep /\ VersionByteAt(pos) # M_version(ty))
           => /\ pc' = "halt"
              /\ result' = Failed("deserialize",
                               "panic: assertion failed: version == Self::version()")
              /\ pos' = pos + HEADER_SIZE + MetaSize
              /\ replay' = replay
              /\ meta_read' = None ]_vars
    /\ []((ty \in {"V1", "V2"} /\ result.op = "deserialize"
           /\ pc \in {"dec", "decoded"})
          => /\ VersionByteAt(start_pos) = M_version(ty)
             /\ Unwrap(meta_read).version = M_version(ty)
             /\ pc = "decoded" => replay.meta.version = M_version(ty))

\* Replay::<MetaV1>::deserialize met a V2 metadata block in front of an
\* input stream: it panicked with the reader at the start of that stream
C39_Witness ==
    /\ pc = "halt"
    /\ ty = "V1"
    /\ result = Failed("deserialize",
                       "panic: assertion failed: version == Self::version()")
    /\ VersionByteAt(start_pos) = 2
    /\ pos = start_pos + HEADER_SIZE + MetaSize
    /\ pos < Len(out)

\* the bytes w are one varint: 1 to 5 bytes, bit 7 set in all but the last
IsVarint(w) ==
    /\ Len(w) \in 1..5
    /\ \A i \in 1..(Len(w) - 1) : w[i] >= 128
    /\ w[Len(w)] < 128

\* read_var_u32 at position p of buf returns v and leaves the reader at q,
\* in a build with overflow checks and in one without
ReadsAs(buf, p, v, q) ==
    \A checks \in BOOLEAN :
        read_var_u32(buf, p, checks) = [tag |-> "Ok", value |-> v, pos |-> q]

\* where the input stream starts in the bytes of serialize
InputsAt == HEADER_SIZE + MetaSize

\* serialize is called on a V1 replay of one input and returns Ok
SerializeV1OneStep ==
    /\ pc \in {"new", "decoded", "converted"}
    /\ ty = "V1"
    /\ Len(replay.inputs) = 1
    /\ pc' \in {"written", "rewritten"}

\* C40: for a 32-bit value v, write_var_u32 emits 1 to 5 bytes of which
\* only the last has bit 7 clear, and read_var_u32 on those bytes returns v
\* and consumes exactly those bytes: for the start frame the V2 encoder
\* writes and for the count and the frame of a V1 record (between the count
\* and the control byte), at frames on both sides of every length of varint.
C40_VarintRoundTrip ==
    /\ [][ SerializeV2Step
           => LET w == SubSeq(out', InputsAt + 1, Len(out'))
                  f == replay.inputs[1].frame
              IN  /\ IsVarint(w)
                  /\ ReadsAs(out', InputsAt, <<f[1], f[2]>>, Len(out')) ]_vars
    /\ [][ SerializeV1OneStep
           => LET w == SubSeq(out', InputsAt + 2, Len(out') - 2)
                  f == replay.inputs[1].frame
              IN  /\ ReadsAs(out', InputsAt, U32(0, 1), InputsAt + 1)
                  /\ IsVarint(w)
                  /\ ReadsAs(out', InputsAt + 1, <<f[1], f[2]>>, Len(out') - 2) ]_vars
    /\ [][ (DecodeWrittenStep(2) /\ replay.inputs # <<>>)
           => LET f == replay.inputs[1].frame
              IN  /\ de'.current_frame = <<f[1], f[2], 0, 0>>
                  /\ pos' = VarintEnd(out, InputsAt) ]_vars

\* a V2 replay whose input is at frame 2^32 - 1 was written, with the five
\* bytes FF FF FF FF 0F for the start frame, and decoded to that frame
C40_Witness ==
    /\ pc = "decoded"
    /\ result = Ok("deserialize")
    /\ replay.meta.version = 2
    /\ Len(out) = InputsAt + 6
    /\ SubSeq(out, InputsAt + 1, InputsAt + 5) = <<255, 255, 255, 255, 15>>
    /\ Len(replay.inputs) = 1
    /\ replay.inputs[1].frame = <<65535, 65535, 0, 0>>

====
